---- MODULE Spec2Model ----
(***************************************************************************)
(* A model of the RemirrorManager lifecycle                                *)
(* (packages/@remirror/core/src/manager/remirror-manager.ts).              *)
(*                                                                         *)
(* One manager instance is modelled.  Init is the moment before the        *)
(* constructor is entered; `create` and `constructor` build the manager,   *)
(* and every public method is one action.  Every handler invocation, every *)
(* emitted event and every call made on the attached view is appended to   *)
(* `log` in the order in which the code performs it.                       *)
(***************************************************************************)
EXTENDS Integers, Sequences, FiniteSets, TLC

\* ------------------------------------------------------------------------
\* Bounds
\* ------------------------------------------------------------------------

\* The number of public calls made on one manager instance.
MaxCalls == 5

\* ------------------------------------------------------------------------
\* Constants of the program
\* ------------------------------------------------------------------------

\* The lifecycle phases, in their numeric order.
ManagerPhase == [None |-> 0, Create |-> 1, EditorView |-> 2, Runtime |-> 3, Destroy |-> 4]

\* The priorities a unit can have; a larger value sorts earlier.
ExtensionPriority == [Highest |-> 4, High |-> 3, Medium |-> 2, Low |-> 1]

\* The four lifecycle hooks a unit may define.
HookKinds == {"create", "view", "update", "destroy"}

\* The absent value (undefined).
Undefined == "undefined"

\* A unit with nothing but a name, a priority, a variant and hooks.
Unit(name, priority, variant, hooks) ==
  [name |-> name, priority |-> priority, variant |-> variant, hooks |-> hooks,
   sets |-> FALSE, group |-> Undefined, tags |-> {}, extensionTags |-> {},
   commands |-> {}, throws |-> {}, reenters |-> FALSE]

AllHooks == {"create", "view", "update", "destroy"}

\* The units of the model.  `hooks` are the lifecycle methods the unit
\* defines; a unit with `sets` calls store.setExtensionStore from each of its
\* hooks and records whether the call threw.  `group` is the group of the
\* unit's node or mark spec, `tags` its `tags` property, `extensionTags` its
\* `extensionTags` property and `commands` the names createCommands returns.
\* A unit `throws` from the hooks listed; a unit that `reenters` calls
\* store.updateState from its onStateUpdate handler.
UnitDefs ==
  [a    |-> [Unit("a", ExtensionPriority.High, "node", AllHooks)
               EXCEPT !.group = "block", !.commands = {"insertA"}],
   b    |-> [Unit("b", ExtensionPriority.Low, "mark", AllHooks)
               EXCEPT !.sets = TRUE, !.group = "fontStyle", !.tags = {"formattingMark"}],
   c    |-> Unit("c", ExtensionPriority.Medium, "plain", {"view", "update"}),
   tags |-> Unit("tags", ExtensionPriority.Highest, "plain", {"create"}),
   doc  |-> Unit("doc", ExtensionPriority.Low, "node", {"update", "destroy"}),
   a2   |-> [Unit("a", ExtensionPriority.Medium, "node", {}) EXCEPT !.group = "block"],
   paragraph |-> [Unit("paragraph", ExtensionPriority.Medium, "node", {})
                    EXCEPT !.group = "block", !.extensionTags = {"lastNodeCompatible"},
                           !.commands = {"createParagraph"}],
   hardBreak |-> [Unit("hardBreak", ExtensionPriority.Medium, "node", {})
                    EXCEPT !.group = "inline", !.commands = {"insertHardBreak"}],
   k    |-> [Unit("k", ExtensionPriority.Medium, "plain", {})
               EXCEPT !.commands = {"createParagraph"}],
   r    |-> [Unit("r", ExtensionPriority.Medium, "plain", {"update"})
               EXCEPT !.reenters = TRUE],
   t    |-> [Unit("t", ExtensionPriority.Medium, "plain", {"view"})
               EXCEPT !.throws = {"view"}],
   h    |-> Unit("h", ExtensionPriority.Highest, "plain", {"create"})]

\* The child units of each preset.
PresetDefs == [builtin |-> <<"tags", "doc">>, core |-> <<"c">>]

PresetNames == DOMAIN PresetDefs

\* The constructor (class) of every unit and preset.
ConstructorOf ==
  [a |-> "AExtension", b |-> "BExtension", c |-> "CExtension", tags |-> "TagsExtension",
   doc |-> "DocExtension", a2 |-> "A2Extension", paragraph |-> "ParagraphExtension",
   hardBreak |-> "HardBreakExtension", k |-> "KExtension", r |-> "RExtension",
   t |-> "TExtension",
   h |-> "HExtension",
   builtin |-> "BuiltinPreset", core |-> "CorePreset"]

\* The combined lists a caller passes to the factory.
CombinedChoices == {<<"a", "b">>, <<"b", "a">>, <<"b", "core", "a">>}

\* The extension lists and the preset lists a caller passes to fromObject.
ExtensionChoices == {<<"b">>}
PresetChoices == {<<"core">>, <<>>}

\* The views a caller may attach and the editor states they may hold.
Views == {"v1", "v2"}
EditorStates == {"s1", "s2"}

\* The {previousState, state} parameters the view layer passes to
\* onStateUpdate.
StateUpdates == {[previousState |-> "s1", state |-> "s2"],
                 [previousState |-> "s2", state |-> "s1"]}

\* The initial state every view starts with.
InitialViewState == "s1"

VARIABLES
  mgr,              \* "none": not constructed, "live": constructed, "failed": the constructor threw
  combined,         \* #combined
  extensions,       \* #extensions
  presets,          \* #presets
  store,            \* #store, the manager store
  extensionStore,   \* #extensionStore
  received,         \* the units and presets that were handed the extension store
  phase,            \* #phase
  firstStateUpdate, \* #firstStateUpdate
  handlers,         \* #handlers
  viewState,        \* view.state of every view
  log,              \* what the manager has invoked so far, in order
  trace,            \* the calls made so far, each with its outcome
  extensionMap,     \* #extensionMap
  presetMap,        \* #presetMap
  clones,           \* the managers returned by clone() and recreate()
  created,          \* the latest result of createState / createDocumentNode
  config            \* #settings, and each unit's options and initialOptions

vars == <<mgr, combined, extensions, presets, store, extensionStore, received, phase,
          firstStateUpdate, handlers, viewState, log, trace, extensionMap, presetMap,
          clones, created, config>>

\* ------------------------------------------------------------------------
\* Resolution of the combined list
\* ------------------------------------------------------------------------

\* The units of a combined list, every preset replaced by its child units.
RECURSIVE expandCombined(_)
expandCombined(list) ==
  IF list = <<>> THEN <<>>
  ELSE LET head == Head(list)
       IN  (IF head \in PresetNames THEN PresetDefs[head] ELSE <<head>>)
             \o expandCombined(Tail(list))

\* The presets of a combined list, in their order.
presetsOf(list) == SelectSeq(list, LAMBDA e : e \in PresetNames)

\* `unit` placed in front of the units of `sorted` of its own priority.
RECURSIVE insertByPriority_Unstable(_, _)
insertByPriority_Unstable(unit, sorted) ==
  IF sorted = <<>> THEN <<unit>>
  ELSE IF UnitDefs[Head(sorted)].priority > UnitDefs[unit].priority
       THEN <<Head(sorted)>> \o insertByPriority_Unstable(unit, Tail(sorted))
       ELSE <<unit>> \o sorted

\* `unit` placed behind every unit of `sorted` whose priority is not lower.
RECURSIVE insertByPriority(_, _)
insertByPriority(unit, sorted) ==
  IF sorted = <<>> THEN <<unit>>
  ELSE IF UnitDefs[Head(sorted)].priority >= UnitDefs[unit].priority
       THEN <<Head(sorted)>> \o insertByPriority(unit, Tail(sorted))
       ELSE <<unit>> \o sorted

\* A stable sort by descending priority.
RECURSIVE sortByPriority(_)
sortByPriority(list) ==
  IF list = <<>> THEN <<>>
  ELSE insertByPriority(list[Len(list)], sortByPriority(SubSeq(list, 1, Len(list) - 1)))

\* The list without the later occurrences of a unit it already holds.
RECURSIVE dedupe(_)
dedupe(list) ==
  IF list = <<>> THEN <<>>
  ELSE LET front == dedupe(SubSeq(list, 1, Len(list) - 1))
           last  == list[Len(list)]
       IN  IF \E i \in DOMAIN front : front[i] = last THEN front ELSE Append(front, last)

\* The map from constructor to instance of the members of a list.
constructorMap(list) ==
  LET members == {list[i] : i \in DOMAIN list}
  IN  [k \in {ConstructorOf[u] : u \in members}
         |-> CHOOSE u \in members : ConstructorOf[u] = k]

\* No two units count as sharing a name.
duplicateNames_Never(exts) == FALSE

\* Two different units of one variant have the same name.
duplicateNames(exts) ==
  \E i, j \in DOMAIN exts :
    /\ exts[i] # exts[j]
    /\ UnitDefs[exts[i]].variant = UnitDefs[exts[j]].variant
    /\ UnitDefs[exts[i]].name = UnitDefs[exts[j]].name

\* The units resolved from a combined list, or the error thrown for it.
transformCombinedUnion(list) ==
  LET resolve(exts, prs) ==
        [extensions |-> exts, extensionMap |-> constructorMap(exts),
         presets |-> prs, presetMap |-> constructorMap(prs),
         error |-> IF duplicateNames(exts) THEN "DUPLICATE_NAME" ELSE Undefined]
  IN  resolve(dedupe(sortByPriority(expandCombined(list))), presetsOf(list))

\* No two units count as sharing a command name.
duplicateCommands_Never(exts) == FALSE

\* Two different units return a command of the same name.
duplicateCommands(exts) ==
  \E i, j \in DOMAIN exts :
    /\ exts[i] # exts[j]
    /\ UnitDefs[exts[i]].commands \cap UnitDefs[exts[j]].commands # {}

\* ------------------------------------------------------------------------
\* The stores
\* ------------------------------------------------------------------------

\* A value that was not passed.
NoValue == [kind |-> "undefined"]

\* The manager store before construction has filled it: no key is set.
createInitialStore == [view |-> Undefined, schema |-> NoValue, tags |-> NoValue]

\* this.setStoreKey(key, value)
setStoreKey(st, key, value) == [st EXCEPT ![key] = value]

\* The schema the units of a manager make: the content expression of its
\* doc node and the names of its node types.
createSchema(exts) ==
  [doc   |-> IF \E i \in DOMAIN exts : exts[i] = "doc" THEN "block+" ELSE Undefined,
   nodes |-> {"text"} \cup {UnitDefs[exts[i]].name : i \in {p \in DOMAIN exts :
                                               UnitDefs[exts[p]].variant = "node"}}]

createExtensionStore ==
  [currentState |-> Undefined, previousState |-> Undefined, custom |-> Undefined,
   nodeNames |-> <<>>, markNames |-> <<>>, plainNames |-> <<>>,
   extensions |-> <<>>, tags |-> NoValue]

EmptyHandlers == [create |-> <<>>, view |-> <<>>, update |-> <<>>, destroy |-> <<>>]

\* setExtensionStore with the phase test off by one phase.
setExtensionStore_UntilEditorView(ph, es, key, value) ==
  IF ph <= ManagerPhase.EditorView
  THEN [ok |-> TRUE, es |-> [es EXCEPT ![key] = value]]
  ELSE [ok |-> FALSE, es |-> es]

\* store.setExtensionStore(key, value) called while the phase is `ph`: the
\* store afterwards and whether the call returned normally.
setExtensionStore(ph, es, key, value) ==
  IF ph <= ManagerPhase.Create
  THEN [ok |-> TRUE, es |-> [es EXCEPT ![key] = value]]
  ELSE [ok |-> FALSE, es |-> es]

\* The units of `exts` that define the hook `kind`, in the order of `exts`.
handlersOf(exts, kind) == SelectSeq(exts, LAMBDA u : kind \in UnitDefs[u].hooks)

RECURSIVE names(_)
names(exts) ==
  IF exts = <<>> THEN <<>> ELSE <<UnitDefs[Head(exts)].name>> \o names(Tail(exts))

\* The names pushed to every list, whatever the variant.
namesOf_Every(exts, variant) == names(exts)

\* The names pushed to the list of a variant by the walk over #extensions.
namesOf(exts, variant) == names(SelectSeq(exts, LAMBDA u : UnitDefs[u].variant = variant))

RECURSIVE reverse(_)
reverse(list) == IF list = <<>> THEN <<>> ELSE Append(reverse(Tail(list)), Head(list))

\* setupLifecycleHandlers adding every handler to the front of its list.
setupLifecycleHandlers_Unshift(exts) ==
  [handlers  |-> [create  |-> reverse(handlersOf(exts, "create")),
                  view    |-> reverse(handlersOf(exts, "view")),
                  update  |-> reverse(handlersOf(exts, "update")),
                  destroy |-> reverse(handlersOf(exts, "destroy"))],
   nodeNames  |-> namesOf(exts, "node"),
   markNames  |-> namesOf(exts, "mark"),
   plainNames |-> namesOf(exts, "plain")]

\* setupLifecycleHandlers: the handler lists and the name lists, both filled
\* by one walk over #extensions.
setupLifecycleHandlers(exts) ==
  [handlers  |-> [create  |-> handlersOf(exts, "create"),
                  view    |-> handlersOf(exts, "view"),
                  update  |-> handlersOf(exts, "update"),
                  destroy |-> handlersOf(exts, "destroy")],
   nodeNames  |-> namesOf(exts, "node"),
   markNames  |-> namesOf(exts, "mark"),
   plainNames |-> namesOf(exts, "plain")]

\* ------------------------------------------------------------------------
\* The log
\* ------------------------------------------------------------------------

NoParam == [view |-> Undefined, state |-> Undefined, previousState |-> Undefined,
            firstUpdate |-> FALSE, round |-> 0]

\* One entry of the log.  `round` numbers the state updates in the order in
\* which onStateUpdate was entered.  `kind` is a hook kind for a handler invocation,
\* "emit:stateUpdate" or "emit:destroy" for an event, "view.destroy" or
\* "plugins.destroy" for a call made on the attached view.
Entry(kind, unit, ph, param, set, es) ==
  [call |-> Len(trace) + 1, kind |-> kind, unit |-> unit, phase |-> ph,
   view |-> param.view, state |-> param.state, previousState |-> param.previousState,
   firstUpdate |-> param.firstUpdate, round |-> param.round, set |-> set,
   currentState |-> es.currentState, storePrevious |-> es.previousState,
   tags |-> es.tags]

\* ExtensionTag, MarkGroup and NodeGroup: the keys resetTags puts in the
\* three tables.
ExtensionTag == {"formattingMark", "formattingNode", "lastNodeCompatible", "nodeCursor"}
MarkGroup == {"alignment", "behavior", "color", "fontStyle", "indentation", "link", "code"}
NodeGroup == {"block", "inline"}

\* TagsExtension.combinedTags
combinedTags(general, mark, node) ==
  [kind |-> "tags", general |-> general, mark |-> mark, node |-> node]

\* TagsExtension.resetTags()
resetTags ==
  combinedTags([tag \in ExtensionTag |-> <<>>], [group \in MarkGroup |-> <<>>],
               [group \in NodeGroup |-> <<>>])

\* `table[key] = isUndefined(table[key]) ? [name] : [...table[key], name]`
addName(table, key, name) ==
  IF key \in DOMAIN table
  THEN [table EXCEPT ![key] = Append(@, name)]
  ELSE table @@ (key :> <<name>>)

\* `for (const tag of extension.tags)`
RECURSIVE addGeneralTags(_, _, _)
addGeneralTags(table, tags, name) ==
  IF tags = {} THEN table
  ELSE LET tag == CHOOSE x \in tags : TRUE
       IN  addGeneralTags(addName(table, tag, name), tags \ {tag}, name)

\* TagsExtension.updateTagForExtension(extension): the group comes from the
\* unit's node or mark spec, the general tags from its `tags` property.
updateTagForExtension(tables, unit) ==
  LET extension == UnitDefs[unit]
      node == IF extension.variant = "node"
              THEN addName(tables.node, extension.group, extension.name)
              ELSE tables.node
      mark == IF extension.variant = "mark"
              THEN addName(tables.mark, extension.group, extension.name)
              ELSE tables.mark
  IN  combinedTags(addGeneralTags(tables.general, extension.tags, extension.name),
                   mark, node)

\* `for (const extension of this.store.extensions) this.updateTagForExtension(extension)`
RECURSIVE updateTags(_, _)
updateTags(tables, exts) ==
  IF exts = <<>> THEN tables
  ELSE updateTags(updateTagForExtension(tables, Head(exts)), Tail(exts))

\* TagsExtension.onCreate walking the units without resetting its tables.
tagsOnCreate_NoReset(tables, exts) ==
  updateTags(IF tables = NoValue THEN resetTags ELSE tables, exts)

\* TagsExtension.onCreate(): the tables it hands to both stores.  `tables`
\* are the unit's tables before the call.
tagsOnCreate(tables, exts) == updateTags(resetTags, exts)

\* One unit's handler of the given kind: its log entry, the extension
\* store it leaves behind, its writes to the manager store and whether it
\* threw.  The onCreate handler of the tags unit is TagsExtension.onCreate.
runHandler(unit, kind, ph, param, es) ==
  LET ran(attempt, isTags, tables, r) ==
        [entry  |-> Entry(kind, unit, ph, param,
                          IF ~(attempt \/ isTags) THEN "none"
                          ELSE IF r.ok THEN "ok" ELSE "MANAGER_PHASE_ERROR",
                          es),
         es     |-> r.es,
         writes |-> IF isTags THEN <<[key |-> "tags", value |-> tables]>> ELSE <<>>,
         thrown |-> kind \in UnitDefs[unit].throws \/ (isTags /\ ~r.ok)]
      call(attempt, isTags, tables) ==
        ran(attempt, isTags, tables,
            IF attempt THEN setExtensionStore(ph, es, "custom", unit)
            ELSE IF isTags THEN setExtensionStore(ph, es, "tags", tables)
            ELSE [ok |-> TRUE, es |-> es])
  IN  call(UnitDefs[unit].sets, unit = "tags" /\ kind = "create",
           tagsOnCreate(es.tags, es.extensions))

\* The writes the handlers made with store.setStoreKey, applied in order.
RECURSIVE applyWrites(_, _)
applyWrites(st, writes) ==
  IF writes = <<>> THEN st
  ELSE applyWrites(setStoreKey(st, Head(writes).key, Head(writes).value), Tail(writes))

\* `for (const handler of this.#handlers[kind]) handler(param)`: the loop
\* ends with the first handler that throws.
RECURSIVE runHandlers(_, _, _, _, _)
runHandlers(hs, kind, ph, param, es) ==
  IF hs = <<>> THEN [log |-> <<>>, es |-> es, writes |-> <<>>, thrown |-> FALSE]
  ELSE LET join(r, rest) ==
             [log |-> <<r.entry>> \o rest.log, es |-> rest.es,
              writes |-> r.writes \o rest.writes, thrown |-> rest.thrown]
           after(r) ==
             IF r.thrown
             THEN [log |-> <<r.entry>>, es |-> r.es, writes |-> r.writes, thrown |-> TRUE]
             ELSE join(r, runHandlers(Tail(hs), kind, ph, param, r.es))
       IN  after(runHandler(Head(hs), kind, ph, param, es))

\* ------------------------------------------------------------------------
\* Settings and options
\* ------------------------------------------------------------------------

\* The units and presets a caller can hand to a manager.
Members == DOMAIN ConstructorOf

\* `settings = {}`, the default of create() and recreate(), and the other
\* settings a caller passes.
DefaultSettings == "{}"
SettingsChoices == {DefaultSettings, "s1"}

\* The options a unit is made with, and the values its setter can give them.
InitialOptions == "o1"
OptionValues == {"o1", "o2"}

\* The settings of a manager made from units as their makers left them.
createConfig(settings) ==
  [settings |-> settings,
   options |-> [e \in Members |-> InitialOptions],
   initialOptions |-> [e \in Members |-> InitialOptions]]

\* ------------------------------------------------------------------------
\* Construction
\* ------------------------------------------------------------------------

\* One call and its outcome.  `before` is the phase in which it was made.
Call(op, view, previousState, state, value, res) ==
  [op |-> op, view |-> view, previousState |-> previousState, state |-> state,
   value |-> value, before |-> phase, result |-> res]

Init ==
  /\ mgr = "none"
  /\ combined = <<>>
  /\ extensions = <<>>
  /\ presets = <<>>
  /\ store = createInitialStore
  /\ extensionStore = createExtensionStore
  /\ received = {}
  /\ phase = ManagerPhase.None
  /\ firstStateUpdate = TRUE
  /\ handlers = EmptyHandlers
  /\ viewState = [v \in Views |-> InitialViewState]
  /\ log = <<>>
  /\ trace = <<>>
  /\ extensionMap = <<>>
  /\ presetMap = <<>>
  /\ clones = <<>>
  /\ created = [op |-> "none"]
  /\ config = createConfig(DefaultSettings)

\* The constructor testing the privacy symbol only after the handlers ran.
constructor_LateInvariant(op, list, privacy) ==
  /\ mgr = "none"
  /\ combined' = list
  /\ config' = [config EXCEPT !.settings = DefaultSettings]
  /\ LET t     == transformCombinedUnion(list)
         setup == setupLifecycleHandlers(t.extensions)
         es    == [createExtensionStore EXCEPT !.nodeNames = setup.nodeNames,
                                               !.markNames = setup.markNames,
                                               !.plainNames = setup.plainNames,
                                               !.extensions = t.extensions]
         run   == runHandlers(setup.handlers.create, "create", ManagerPhase.Create,
                              NoParam, es)
     IN  /\ mgr' = IF privacy THEN "live" ELSE "failed"
         /\ extensions' = t.extensions
         /\ presets' = t.presets
         /\ received' = {t.extensions[i] : i \in DOMAIN t.extensions}
                          \cup {t.presets[i] : i \in DOMAIN t.presets}
         /\ handlers' = setup.handlers
         /\ phase' = ManagerPhase.Create
         /\ extensionStore' = run.es
         /\ log' = log \o run.log
         /\ trace' = Append(trace, Call(op, Undefined, Undefined, Undefined, Undefined,
                                        IF privacy THEN "manager" ELSE "NEW_EDITOR_MANAGER"))
         /\ extensionMap' = t.extensionMap
         /\ presetMap' = t.presetMap
         /\ store' = applyWrites([store EXCEPT !.schema = createSchema(t.extensions)],
                                 run.writes)
         /\ UNCHANGED <<firstStateUpdate, viewState, clones, created>>

\* The constructor running the onCreate handlers before it sets the phase.
construct_HandlersBeforePhase(list) ==
  LET built(t, setup, run) ==
        [combined       |-> list,
         extensions     |-> t.extensions,
         extensionMap   |-> t.extensionMap,
         presets        |-> t.presets,
         presetMap      |-> t.presetMap,
         received       |-> {t.extensions[i] : i \in DOMAIN t.extensions}
                              \cup {t.presets[i] : i \in DOMAIN t.presets},
         handlers       |-> setup.handlers,
         store          |-> applyWrites([createInitialStore EXCEPT
                                           !.schema = createSchema(t.extensions)],
                                         run.writes),
         phase          |-> ManagerPhase.Create,
         extensionStore |-> run.es,
         log            |-> run.log,
         settings       |-> DefaultSettings,
         options        |-> createConfig(DefaultSettings).options,
         initialOptions |-> createConfig(DefaultSettings).initialOptions,
         error          |-> IF t.error # Undefined THEN t.error
                            ELSE IF duplicateCommands(t.extensions)
                            THEN "DUPLICATE_COMMAND_NAMES"
                            ELSE Undefined]
      withHandlers(t, setup) ==
        built(t, setup,
              runHandlers(setup.handlers.create, "create", ManagerPhase.None, NoParam,
                          [createExtensionStore EXCEPT !.nodeNames = setup.nodeNames,
                                                       !.markNames = setup.markNames,
                                                       !.plainNames = setup.plainNames,
                                                       !.extensions = t.extensions]))
      withUnits(t) == withHandlers(t, setupLifecycleHandlers(t.extensions))
  IN  withUnits(transformCombinedUnion(list))

\* The fields of a manager whose constructor ran to its end on `list`, and
\* the handler invocations made on the way.
construct(list) ==
  LET built(t, setup, run) ==
        [combined       |-> list,
         extensions     |-> t.extensions,
         extensionMap   |-> t.extensionMap,
         presets        |-> t.presets,
         presetMap      |-> t.presetMap,
         received       |-> {t.extensions[i] : i \in DOMAIN t.extensions}
                              \cup {t.presets[i] : i \in DOMAIN t.presets},
         handlers       |-> setup.handlers,
         store          |-> applyWrites([createInitialStore EXCEPT
                                           !.schema = createSchema(t.extensions)],
                                         run.writes),
         phase          |-> ManagerPhase.Create,
         extensionStore |-> run.es,
         log            |-> run.log,
         settings       |-> DefaultSettings,
         options        |-> createConfig(DefaultSettings).options,
         initialOptions |-> createConfig(DefaultSettings).initialOptions,
         error          |-> IF t.error # Undefined THEN t.error
                            ELSE IF duplicateCommands(t.extensions)
                            THEN "DUPLICATE_COMMAND_NAMES"
                            ELSE Undefined]
      withHandlers(t, setup) ==
        built(t, setup,
              runHandlers(setup.handlers.create, "create", ManagerPhase.Create, NoParam,
                          [createExtensionStore EXCEPT !.nodeNames = setup.nodeNames,
                                                       !.markNames = setup.markNames,
                                                       !.plainNames = setup.plainNames,
                                                       !.extensions = t.extensions]))
      withUnits(t) == withHandlers(t, setupLifecycleHandlers(t.extensions))
  IN  withUnits(transformCombinedUnion(list))

\* new RemirrorManager(list, {privacy}), reached through `op`: `privacy`
\* tells whether the privacy symbol was passed.
constructor(op, list, privacy) ==
  LET failed(error) ==
        /\ mgr' = "failed"
        /\ trace' = Append(trace, Call(op, Undefined, Undefined, Undefined, Undefined, error))
        /\ UNCHANGED <<extensions, presets, store, extensionStore, received, phase,
                       firstStateUpdate, handlers, viewState, log, extensionMap,
                       presetMap, clones, created>>
      made(m) ==
        IF m.error # Undefined
        THEN failed(m.error)
        ELSE /\ mgr' = "live"
             /\ extensions' = m.extensions
             /\ extensionMap' = m.extensionMap
             /\ presets' = m.presets
             /\ presetMap' = m.presetMap
             /\ received' = m.received
             /\ handlers' = m.handlers
             /\ store' = m.store
             /\ phase' = m.phase
             /\ extensionStore' = m.extensionStore
             /\ log' = log \o m.log
             /\ trace' = Append(trace, Call(op, Undefined, Undefined, Undefined, Undefined,
                                            "manager"))
             /\ UNCHANGED <<firstStateUpdate, viewState, clones, created>>
  IN  /\ mgr = "none"
      /\ combined' = list
      /\ config' = [config EXCEPT !.settings = DefaultSettings]
      /\ IF ~privacy THEN failed("NEW_EDITOR_MANAGER") ELSE made(construct(list))

\* RemirrorManager.create(list), reached through `op`: the factory appends
\* the builtin preset and passes the privacy symbol.
create(op, list) == constructor(op, list \o <<"builtin">>, TRUE)

Create(list) == create("create", list)

\* RemirrorManager.fromObject({extensions, presets}).
FromObject(exts, prs) == create("fromObject", exts \o prs)

\* The constructor invoked directly, without the privacy symbol.
NewRemirrorManager(list) == constructor("new", list, FALSE)

\* ------------------------------------------------------------------------
\* The methods of a constructed manager
\* ------------------------------------------------------------------------

\* A call can be made on the manager.
Callable == mgr = "live" /\ Len(trace) < MaxCalls

\* this.getState(): the state of the stored view, or the error thrown.
getState(ph, st, vs) ==
  IF ~(ph >= ManagerPhase.EditorView) THEN "MANAGER_PHASE_ERROR"
  ELSE IF st.view = Undefined THEN "TypeError"
  ELSE vs[st.view]

IsError(r) == r \in {"MANAGER_PHASE_ERROR", "TypeError", "NEW_EDITOR_MANAGER"}

GetState ==
  /\ Callable
  /\ trace' = Append(trace, Call("getState", Undefined, Undefined, Undefined, Undefined,
                                 getState(phase, store, viewState)))
  /\ UNCHANGED <<mgr, combined, config, extensions, presets, extensionMap, presetMap, clones,
                 created, store, extensionStore, received,
                 phase, firstStateUpdate, handlers, viewState, log>>

\* addView without the test of the phase.
addView_Unguarded(view) ==
  LET param == [NoParam EXCEPT !.view = view]
      run   == runHandlers(handlers.view, "view", ManagerPhase.EditorView, param,
                           extensionStore)
  IN  /\ firstStateUpdate' = TRUE
      /\ phase' = ManagerPhase.EditorView
      /\ store' = [store EXCEPT !.view = view]
      /\ log' = log \o run.log
      /\ extensionStore' = run.es

\* addView resetting #firstStateUpdate before the test of the phase.
addView_ResetsFirstUpdate(view) ==
  IF phase >= ManagerPhase.EditorView
  THEN /\ firstStateUpdate' = TRUE
       /\ UNCHANGED <<phase, store, log, extensionStore>>
  ELSE LET param == [NoParam EXCEPT !.view = view]
           run   == runHandlers(handlers.view, "view", ManagerPhase.EditorView, param,
                                extensionStore)
       IN  /\ firstStateUpdate' = TRUE
           /\ phase' = ManagerPhase.EditorView
           /\ store' = [store EXCEPT !.view = view]
           /\ log' = log \o run.log
           /\ extensionStore' = run.es

\* addView undoing the phase and the stored view when a handler throws.
addView_RollsBack(view) ==
  IF phase >= ManagerPhase.EditorView
  THEN UNCHANGED <<firstStateUpdate, phase, store, log, extensionStore>>
  ELSE LET param == [NoParam EXCEPT !.view = view]
           run   == runHandlers(handlers.view, "view", ManagerPhase.EditorView, param,
                                extensionStore)
       IN  /\ firstStateUpdate' = TRUE
           /\ phase' = IF run.thrown THEN phase ELSE ManagerPhase.EditorView
           /\ store' = IF run.thrown THEN store ELSE [store EXCEPT !.view = view]
           /\ log' = log \o run.log
           /\ extensionStore' = run.es

\* manager.addView(view)
addView(view) ==
  IF phase >= ManagerPhase.EditorView
  THEN UNCHANGED <<firstStateUpdate, phase, store, log, extensionStore>>
  ELSE LET attach(run) ==
             /\ firstStateUpdate' = TRUE
             /\ phase' = ManagerPhase.EditorView
             /\ store' = [store EXCEPT !.view = view]
             /\ log' = log \o run.log
             /\ extensionStore' = run.es
       IN  attach(runHandlers(handlers.view, "view", ManagerPhase.EditorView,
                              [NoParam EXCEPT !.view = view], extensionStore))

\* The call ends with the error an onView handler throws.
addViewThrows(view) ==
  /\ phase < ManagerPhase.EditorView
  /\ runHandlers(handlers.view, "view", ManagerPhase.EditorView,
                 [NoParam EXCEPT !.view = view], extensionStore).thrown

AddView(view) ==
  /\ Callable
  /\ addView(view)
  /\ trace' = Append(trace, Call("addView", view, Undefined, Undefined, Undefined,
                                 IF addViewThrows(view) THEN "HandlerError" ELSE "manager"))
  /\ UNCHANGED <<mgr, combined, config, extensions, presets, extensionMap, presetMap, clones,
                 created, received, handlers, viewState>>

\* onStateUpdate writing the snapshots to the extension store only after the
\* handlers ran.
onStateUpdate_StoreAfterHandlers(previousState, state, vs) ==
  LET firstUpdate == firstStateUpdate
      ph    == IF firstStateUpdate THEN ManagerPhase.Runtime ELSE phase
      param == [NoParam EXCEPT !.state = state, !.previousState = previousState,
                               !.firstUpdate = firstUpdate]
      run   == runHandlers(handlers.update, "update", ph, param, extensionStore)
      es    == [run.es EXCEPT !.currentState = state, !.previousState = previousState]
  IN  /\ phase' = ph
      /\ firstStateUpdate' = FALSE
      /\ extensionStore' = es
      /\ log' = log \o run.log
                    \o <<Entry("emit:stateUpdate", Undefined, ph, param, "none", es)>>
      /\ viewState' = vs

\* The state a re-entering unit passes to store.updateState.
ReentrantState == "s3"

\* The state updates entered so far.
Issued == Cardinality({i \in DOMAIN log : log[i].kind = "emit:stateUpdate"})

\* onStateUpdate up to its loop: the snapshots are in the extension store,
\* the first update moves the phase to Runtime, the parameter is complete.
beginStateUpdate(previousState, state, ctx) ==
  [param |-> [NoParam EXCEPT !.state = state, !.previousState = previousState,
                             !.firstUpdate = ctx.first, !.round = ctx.issued + 1],
   ctx   |-> [ctx EXCEPT !.es = [ctx.es EXCEPT !.currentState = state,
                                               !.previousState = previousState],
                         !.ph = IF ctx.first THEN ManagerPhase.Runtime ELSE ctx.ph,
                         !.first = FALSE,
                         !.issued = ctx.issued + 1]]

\* `this.#events.emit('stateUpdate', parameterWithUpdate)` after the loop.
emitStateUpdate(run, param) ==
  [run EXCEPT !.log = Append(run.log, Entry("emit:stateUpdate", Undefined, run.ph,
                                            param, "none", run.es))]

\* The loop over #handlers.update in a round that a handler started: the
\* state of that round is ReentrantState, so no handler starts another one.
RECURSIVE runNestedHandlers(_, _, _)
runNestedHandlers(hs, param, ctx) ==
  IF hs = <<>> THEN ctx
  ELSE LET step(r) ==
             runNestedHandlers(Tail(hs), param,
                               [ctx EXCEPT !.es = r.es, !.log = Append(ctx.log, r.entry)])
       IN  step(runHandler(Head(hs), "update", ctx.ph, param, ctx.es))

\* this.updateState(state) as a unit's handler calls it through the
\* extension store: the view takes the state and onStateUpdate runs inside
\* the handler.
handlerUpdateState(state, ctx) ==
  LET round(begun) ==
        emitStateUpdate(runNestedHandlers(handlers.update, begun.param, begun.ctx),
                        begun.param)
  IN  round(beginStateUpdate(getState(ctx.ph, store, ctx.vs), state,
                             [ctx EXCEPT !.vs = [ctx.vs EXCEPT ![store.view] = state]]))

\* `for (const handler of this.#handlers.update) handler(parameterWithUpdate)`.
\* A unit that re-enters calls store.updateState(ReentrantState) from its
\* handler when a view is attached and the state it is passed is another one.
RECURSIVE runUpdateHandlers(_, _, _)
runUpdateHandlers(hs, param, ctx) ==
  IF hs = <<>> THEN ctx
  ELSE LET unit == Head(hs)
           back(ran) == IF /\ UnitDefs[unit].reenters
                           /\ store.view # Undefined
                           /\ param.state # ReentrantState
                        THEN handlerUpdateState(ReentrantState, ran)
                        ELSE ran
           step(r) ==
             runUpdateHandlers(Tail(hs), param,
                               back([ctx EXCEPT !.es = r.es,
                                                !.log = Append(ctx.log, r.entry)]))
       IN  step(runHandler(unit, "update", ctx.ph, param, ctx.es))

\* The body of onStateUpdate on the fields held in `ctx`.
applyStateUpdate(previousState, state, ctx) ==
  LET round(begun) ==
        emitStateUpdate(runUpdateHandlers(handlers.update, begun.param, begun.ctx),
                        begun.param)
  IN  round(beginStateUpdate(previousState, state, ctx))

\* manager.onStateUpdate({previousState, state}), the views holding `vs`.
onStateUpdate(previousState, state, vs) ==
  LET finish(run) ==
        /\ phase' = run.ph
        /\ firstStateUpdate' = run.first
        /\ extensionStore' = run.es
        /\ log' = log \o run.log
        /\ viewState' = run.vs
  IN  finish(applyStateUpdate(previousState, state,
                              [es |-> extensionStore, vs |-> vs, ph |-> phase,
                               first |-> firstStateUpdate, issued |-> Issued,
                               log |-> <<>>]))

OnStateUpdate(previousState, state) ==
  /\ Callable
  /\ onStateUpdate(previousState, state, viewState)
  /\ trace' = Append(trace, Call("onStateUpdate", Undefined, previousState, state, Undefined,
                                 Undefined))
  /\ UNCHANGED <<mgr, combined, config, extensions, presets, extensionMap, presetMap, clones,
                 created, store, received, handlers>>

\* store.updateState(state)
updateState(state) ==
  LET previousState == getState(phase, store, viewState)
  IN  IF IsError(previousState)
      THEN /\ trace' = Append(trace, Call("updateState", Undefined, Undefined, state,
                                          Undefined, previousState))
           /\ UNCHANGED <<phase, firstStateUpdate, extensionStore, log, viewState>>
      ELSE /\ onStateUpdate(previousState, state, [viewState EXCEPT ![store.view] = state])
           /\ trace' = Append(trace, Call("updateState", Undefined, previousState, state,
                                          Undefined, Undefined))

UpdateState(state) ==
  /\ Callable
  /\ updateState(state)
  /\ UNCHANGED <<mgr, combined, config, extensions, presets, extensionMap, presetMap, clones,
                 created, store, received, handlers>>

\* store.setExtensionStore(key, value) called from outside of any handler.
SetExtensionStore(key, value) ==
  /\ Callable
  /\ LET r == setExtensionStore(phase, extensionStore, key, value)
     IN  /\ extensionStore' = r.es
         /\ trace' = Append(trace, Call("setExtensionStore", Undefined, Undefined, Undefined,
                                        value,
                                        IF r.ok THEN Undefined ELSE "MANAGER_PHASE_ERROR"))
  /\ UNCHANGED <<mgr, combined, config, extensions, presets, extensionMap, presetMap, clones,
                 created, store, received, phase,
                 firstStateUpdate, handlers, viewState, log>>

\* destroy returning early when no view is attached.
destroy_ReturnsWithoutView ==
  LET ph      == ManagerPhase.Destroy
      param   == [NoParam EXCEPT !.view = store.view]
      run     == runHandlers(handlers.destroy, "destroy", ph, param, extensionStore)
  IN  IF store.view = Undefined
      THEN /\ phase' = ph
           /\ UNCHANGED <<extensionStore, log>>
      ELSE /\ phase' = ph
           /\ extensionStore' = run.es
           /\ log' = log \o <<Entry("plugins.destroy", Undefined, ph, param, "none",
                                    extensionStore)>>
                         \o run.log
                         \o <<Entry("view.destroy", Undefined, ph, param, "none", run.es)>>
                         \o <<Entry("emit:destroy", Undefined, ph, param, "none", run.es)>>

\* destroy tearing the view down before it runs the onDestroy handlers.
destroy_ViewFirst ==
  LET ph      == ManagerPhase.Destroy
      param   == [NoParam EXCEPT !.view = store.view]
      hasView == store.view # Undefined
      plugins == IF hasView
                 THEN <<Entry("plugins.destroy", Undefined, ph, param, "none", extensionStore)>>
                 ELSE <<>>
      run     == runHandlers(handlers.destroy, "destroy", ph, param, extensionStore)
      view    == IF hasView
                 THEN <<Entry("view.destroy", Undefined, ph, param, "none", extensionStore)>>
                 ELSE <<>>
      emit    == <<Entry("emit:destroy", Undefined, ph, param, "none", run.es)>>
  IN  /\ phase' = ph
      /\ extensionStore' = run.es
      /\ log' = log \o plugins \o view \o run.log \o emit

\* manager.destroy()
destroy ==
  LET ph      == ManagerPhase.Destroy
      param   == [NoParam EXCEPT !.view = store.view]
      hasView == store.view # Undefined
      plugins == IF hasView
                 THEN <<Entry("plugins.destroy", Undefined, ph, param, "none", extensionStore)>>
                 ELSE <<>>
      finish(run) ==
        /\ phase' = ph
        /\ extensionStore' = run.es
        /\ log' = log \o plugins \o run.log
                      \o (IF hasView
                          THEN <<Entry("view.destroy", Undefined, ph, param, "none", run.es)>>
                          ELSE <<>>)
                      \o <<Entry("emit:destroy", Undefined, ph, param, "none", run.es)>>
  IN  finish(runHandlers(handlers.destroy, "destroy", ph, param, extensionStore))

Destroy ==
  /\ Callable
  /\ destroy
  /\ trace' = Append(trace, Call("destroy", Undefined, Undefined, Undefined, Undefined,
                                 Undefined))
  /\ UNCHANGED <<mgr, combined, config, extensions, presets, extensionMap, presetMap, clones,
                 created, store, received, firstStateUpdate,
                 handlers, viewState>>

\* ------------------------------------------------------------------------
\* Lookup by constructor
\* ------------------------------------------------------------------------

\* The constructors a caller looks up.
LookupChoices == {"AExtension", "CExtension", "CorePreset"}

\* The errors of a failed lookup; the message names the constructor.
InvalidManagerExtension ==
  [AExtension |-> "INVALID_MANAGER_EXTENSION: 'AExtension' doesn't exist within this manager",
   CExtension |-> "INVALID_MANAGER_EXTENSION: 'CExtension' doesn't exist within this manager",
   CorePreset |-> "INVALID_MANAGER_EXTENSION: 'CorePreset' doesn't exist within this manager"]

InvalidManagerPreset ==
  [AExtension |-> "INVALID_MANAGER_PRESET: 'AExtension' doesn't exist within this manager",
   CExtension |-> "INVALID_MANAGER_PRESET: 'CExtension' doesn't exist within this manager",
   CorePreset |-> "INVALID_MANAGER_PRESET: 'CorePreset' doesn't exist within this manager"]

\* WeakMap.get
mapGet(map, key) == IF key \in DOMAIN map THEN map[key] ELSE Undefined

\* getExtension without the invariant on the value found.
getExtension_NoInvariant(map, Constructor) == mapGet(map, Constructor)

\* manager.getExtension(Constructor): the extension, or the error thrown.
getExtension(map, Constructor) ==
  LET extension == mapGet(map, Constructor)
  IN  IF extension = Undefined THEN InvalidManagerExtension[Constructor] ELSE extension

\* manager.getPreset(Constructor): the preset, or the error thrown.
getPreset(map, Constructor) ==
  LET preset == mapGet(map, Constructor)
  IN  IF preset = Undefined THEN InvalidManagerPreset[Constructor] ELSE preset

GetExtension(Constructor) ==
  /\ Callable
  /\ trace' = Append(trace, Call("getExtension", Undefined, Undefined, Undefined, Constructor,
                                 getExtension(extensionMap, Constructor)))
  /\ UNCHANGED <<mgr, combined, config, extensions, presets, extensionMap, presetMap, clones,
                 created, store, extensionStore, received, phase, firstStateUpdate,
                 handlers, viewState, log>>

GetPreset(Constructor) ==
  /\ Callable
  /\ trace' = Append(trace, Call("getPreset", Undefined, Undefined, Undefined, Constructor,
                                 getPreset(presetMap, Constructor)))
  /\ UNCHANGED <<mgr, combined, config, extensions, presets, extensionMap, presetMap, clones,
                 created, store, extensionStore, received, phase, firstStateUpdate,
                 handlers, viewState, log>>

\* The values a caller stores under the `custom` key of the extension store.
CustomValues == {"x"}

Next ==
  \/ \E list \in CombinedChoices : Create(list)
  \/ \E exts \in ExtensionChoices, prs \in PresetChoices : FromObject(exts, prs)
  \/ \E list \in CombinedChoices : NewRemirrorManager(list)
  \/ \E view \in Views : AddView(view)
  \/ \E parameter \in StateUpdates :
        OnStateUpdate(parameter.previousState, parameter.state)
  \/ \E state \in EditorStates : UpdateState(state)
  \/ GetState
  \/ \E value \in CustomValues : SetExtensionStore("custom", value)
  \/ Destroy

Spec == Init /\ [][Next]_vars

\* ------------------------------------------------------------------------
\* clone and recreate
\* ------------------------------------------------------------------------

\* The managers made by clone() and recreate() in one run.
MaxClones == 2

\* The extra units handed to recreate().
ExtraChoices == {<<>>, <<"c">>}

\* The fields of the manager a call is made on: 0 is the manager made by
\* create(), i > 0 the i-th manager made by clone() or recreate().
Manager(src) ==
  IF src = 0
  THEN [combined |-> combined, extensions |-> extensions, extensionMap |-> extensionMap,
        presets |-> presets, presetMap |-> presetMap, received |-> received,
        handlers |-> handlers, store |-> store, phase |-> phase,
        extensionStore |-> extensionStore, log |-> log, error |-> Undefined,
        settings |-> config.settings, options |-> config.options,
        initialOptions |-> config.initialOptions]
  ELSE clones[src]

\* A clone that takes over the phase and the store of the manager it is made from.
clone_KeepsView(this) ==
  [construct(this.combined \o <<"builtin">>) EXCEPT !.phase = this.phase,
                                                    !.store = this.store]

\* A clone whose units are made with their initial options.
clone_InitialOptions(this) ==
  [construct(this.combined \o <<"builtin">>) EXCEPT !.settings = this.settings,
                                                    !.options = this.initialOptions,
                                                    !.initialOptions = this.initialOptions]

\* this.clone(): every member of #combined is re-instantiated with its
\* options, `e.clone(e.options)`, and the list is handed to
\* RemirrorManager.create with this manager's settings; create appends a
\* BuiltinPreset.
clone(this) ==
  [construct(this.combined \o <<"builtin">>) EXCEPT !.settings = this.settings,
                                                    !.options = this.options,
                                                    !.initialOptions = this.options]

\* this.recreate(extra, settings): every member is re-instantiated with its
\* initial options, the extra units come after the cloned ones and the
\* settings are the ones passed.
recreate(this, extra, settings) ==
  [construct((this.combined \o extra) \o <<"builtin">>)
     EXCEPT !.settings = settings,
            !.options = this.initialOptions,
            !.initialOptions = this.initialOptions]

Sources == {0} \cup DOMAIN clones

Clone(src) ==
  /\ Callable
  /\ Len(clones) < MaxClones
  /\ LET made(m) ==
           IF m.error # Undefined
           THEN /\ clones' = clones
                /\ trace' = Append(trace, Call("clone", Undefined, Undefined, Undefined,
                                               ToString(src), m.error))
           ELSE /\ clones' = Append(clones, m)
                /\ trace' = Append(trace, Call("clone", Undefined, Undefined, Undefined,
                                               ToString(src), ToString(Len(clones) + 1)))
     IN  made(clone(Manager(src)))
  /\ UNCHANGED <<mgr, combined, config, extensions, presets, extensionMap, presetMap, created,
                 store, extensionStore, received, phase, firstStateUpdate, handlers,
                 viewState, log>>

\* The extra units are new to the manager: none of them is among its units.
Recreate(src, extra, settings) ==
  /\ Callable
  /\ Len(clones) < MaxClones
  /\ \A i \in DOMAIN extra : extra[i] \notin Manager(src).received
  /\ LET made(m) ==
           IF m.error # Undefined
           THEN /\ clones' = clones
                /\ trace' = Append(trace, Call("recreate", Undefined, Undefined, Undefined,
                                               ToString(src), m.error))
           ELSE /\ clones' = Append(clones, m)
                /\ trace' = Append(trace, Call("recreate", Undefined, Undefined, Undefined,
                                               ToString(src), ToString(Len(clones) + 1)))
     IN  made(recreate(Manager(src), extra, settings))
  /\ UNCHANGED <<mgr, combined, config, extensions, presets, extensionMap, presetMap, created,
                 store, extensionStore, received, phase, firstStateUpdate, handlers,
                 viewState, log>>

\* Clones and recreations of a manager in any phase.
NextClone ==
  \/ \E list \in CombinedChoices : Create(list)
  \/ AddView("v1")
  \/ \E parameter \in StateUpdates : OnStateUpdate(parameter.previousState, parameter.state)
  \/ Destroy
  \/ \E src \in Sources : Clone(src)
  \/ \E src \in Sources, extra \in ExtraChoices : Recreate(src, extra, DefaultSettings)

SpecClone == Init /\ [][NextClone]_vars

\* unit.setOptions(value) on a member of the combined list of a manager.
SetOptions(src, unit, value) ==
  /\ Callable
  /\ \E i \in DOMAIN Manager(src).combined : Manager(src).combined[i] = unit
  /\ Manager(src).options[unit] # value
  /\ IF src = 0
     THEN config' = [config EXCEPT !.options[unit] = value] /\ clones' = clones
     ELSE clones' = [clones EXCEPT ![src].options[unit] = value] /\ config' = config
  /\ trace' = Append(trace, Call("setOptions", Undefined, Undefined, Undefined, unit, value))
  /\ UNCHANGED <<mgr, combined, extensions, presets, extensionMap, presetMap, created,
                 store, extensionStore, received, phase, firstStateUpdate, handlers,
                 viewState, log>>

\* Clones and recreations of managers whose units had their options set.
NextConfig ==
  \/ \E list \in {<<"a", "b">>} : Create(list)
  \/ \E src \in Sources, unit \in {"a", "b"}, value \in OptionValues :
       SetOptions(src, unit, value)
  \/ \E src \in Sources : Clone(src)
  \/ \E src \in Sources, extra \in ExtraChoices, settings \in SettingsChoices :
       Recreate(src, extra, settings)

SpecConfig == Init /\ [][NextConfig]_vars

\* ------------------------------------------------------------------------
\* Documents
\* ------------------------------------------------------------------------


\* A function value and the value it returns.
Function(value) == [kind |-> "function", returns |-> value]

\* Document nodes made by the caller.
CallerNode == [kind |-> "node", origin |-> "caller", id |-> "n1", content |-> <<"a">>,
               nodeSize |-> 4]

FallbackNode == [kind |-> "node", origin |-> "caller", id |-> "fallback", content |-> <<>>,
                 nodeSize |-> 2]

\* Plain objects: documents in JSON form and an object that is not one.
ValidJSON == [kind |-> "json", type |-> "doc", content |-> <<"a">>]

InvalidJSON == [kind |-> "json", type |-> "doc", content |-> <<"unknown">>]

NotADocJSON == [kind |-> "json", type |-> "a", content |-> <<>>]

FallbackJSON == [kind |-> "json", type |-> "doc", content |-> <<"a", "a">>]

EMPTY_PARAGRAPH_NODE == [kind |-> "json", type |-> "doc", content |-> <<"paragraph">>]

EMPTY_NODE == [kind |-> "json", type |-> "doc", content |-> <<>>]

ContentChoices ==
  {CallerNode, ValidJSON, InvalidJSON, NotADocJSON,
   [kind |-> "string", text |-> "hello"], [kind |-> "number", value |-> 42]}

OnErrorChoices ==
  {NoValue, FallbackNode, FallbackJSON, Function(FallbackNode), Function(FallbackJSON)}

StringHandlerChoices == {NoValue, [kind |-> "function", returns |-> "fromString"]}

\* Primitive selections: 'start', 'end', positions (negative, zero, inside, beyond the
\* document) and {from, to} pairs.
SelectionChoices ==
  {NoValue, [kind |-> "string", text |-> "start"], [kind |-> "string", text |-> "end"]}
  \cup {[kind |-> "number", value |-> v] : v \in {-3, 0, 1, 2, 7}}
  \cup {[kind |-> "fromTo", from |-> -1, to |-> 9], [kind |-> "fromTo", from |-> 2, to |-> 1]}

SchemaChoices ==
  {[doc |-> "block+", nodes |-> {"doc", "text", "paragraph", "a"}],
   [doc |-> "block+", nodes |-> {"doc", "text", "a"}],
   [doc |-> "text*",  nodes |-> {"doc", "text", "a"}]}

\* An error thrown instead of a value returned.
Throw(error) == [kind |-> "throw", error |-> error]

\* No value counts as a document node.
isProsemirrorNode_Never(value) == FALSE

isProsemirrorNode(value) == value.kind = "node"

isRemirrorJSON(value) == value.kind = "json" /\ value.type = "doc"

isString(value) == value.kind = "string"

isFunction(value) == value.kind = "function"

\* schema.nodeFromJSON(json): a new node, or a RangeError for a node type
\* the schema does not have.
nodeFromJSON(schema, json) ==
  IF json.kind # "json" THEN Throw("RangeError")
  ELSE IF json.type \notin schema.nodes
            \/ \E i \in DOMAIN json.content : json.content[i] \notin schema.nodes
       THEN Throw("RangeError")
       ELSE [kind |-> "node", origin |-> "nodeFromJSON", id |-> json.type,
             content |-> json.content, nodeSize |-> 2 + 2 * Len(json.content)]

\* stringHandler({doc, content, schema}): the node the caller's parser makes.
callStringHandler(stringHandler, content) ==
  [kind |-> "node", origin |-> stringHandler.returns, id |-> content.text,
   content |-> <<"a">>, nodeSize |-> 4]

createFallback(fallback, schema) ==
  IF isProsemirrorNode(fallback) THEN fallback ELSE nodeFromJSON(schema, fallback)

createDocumentErrorHandler(onError, schema, error) ==
  IF isFunction(onError)
  THEN createFallback(onError.returns, schema)
  ELSE createFallback(onError, schema)

\* `parameter.onError ?? startsWith('block') ? f : g`: the conditional takes
\* the whole `??` expression as its test.
defaultOnError(parameter) ==
  LET test == IF parameter.onError # NoValue
              THEN TRUE
              ELSE parameter.schema.doc \in {"block+", "block*"}
  IN  IF test THEN Function(EMPTY_PARAGRAPH_NODE) ELSE Function(EMPTY_NODE)

createDocumentNode(parameter) ==
  LET content == parameter.content
      schema  == parameter.schema
      onError == defaultOnError(parameter)
  IN  IF isProsemirrorNode(content) THEN content
      ELSE IF isRemirrorJSON(content)
      THEN LET node == nodeFromJSON(schema, content)
           IN  IF node.kind = "throw"
               THEN createDocumentErrorHandler(onError, schema, node.error)
               ELSE node
      ELSE IF isString(content) /\ parameter.stringHandler # NoValue
      THEN callStringHandler(parameter.stringHandler, content)
      ELSE createDocumentErrorHandler(onError, schema, "Unrecognized content type")

\* clamp without its bounds.
clamp_Unbounded(min, max, value) == value

clamp(min, max, value) == IF value < min THEN min ELSE IF value > max THEN max ELSE value

\* Children that hold inline content, so that a cursor can sit inside them.
isTextblock(name) == name \in {"paragraph", "a"}

\* TextSelection.near(doc.resolve(pos)): the cursor at pos when pos is inside a textblock,
\* otherwise inside the nearest textblock after pos, otherwise the nearest before it,
\* otherwise the whole (empty) document. Child i of doc spans 2 * (i - 1) .. 2 * i.
near(doc, pos) ==
  LET cursor(p) == [kind |-> "TextSelection", anchor |-> p, head |-> p]
      inside == {i \in DOMAIN doc.content : isTextblock(doc.content[i])}
      after == {i \in inside : 2 * i - 1 >= pos}
      before == {i \in inside : 2 * i - 1 <= pos}
      least(set) == CHOOSE i \in set : \A k \in set : i <= k
      greatest(set) == CHOOSE i \in set : \A k \in set : i >= k
  IN  IF after # {} THEN cursor(2 * least(after) - 1)
      ELSE IF before # {} THEN cursor(2 * greatest(before) - 1)
      ELSE [kind |-> "AllSelection", anchor |-> 0, head |-> doc.nodeSize - 2]

\* getTextSelection(selection, doc) for 'start', 'end', a position and a {from, to} pair.
getTextSelection(selection, doc) ==
  LET max == doc.nodeSize - 2
      min == 0
  IN  IF selection.kind = "string"
      THEN near(doc, clamp(min, max, IF selection.text = "start" THEN min ELSE max))
      ELSE IF selection.kind = "number"
      THEN near(doc, clamp(min, max, selection.value))
      ELSE [kind |-> "TextSelection", anchor |-> clamp(min, max, selection.from),
            head |-> clamp(min, max, selection.to)]

\* !selection: no selection, or the position 0.
isFalsy(selection) ==
  \/ selection = NoValue
  \/ selection.kind = "number" /\ selection.value = 0

\* this.createState(parameter): the state made, or the error thrown. A state returned
\* without a selection transaction keeps the selection EditorState.create gave it.
createState(st, parameter) ==
  LET doc == createDocumentNode([parameter EXCEPT !.schema = st.schema])
  IN  IF doc.kind = "throw" THEN doc
      ELSE [kind |-> "state", schema |-> st.schema, doc |-> doc,
            selection |-> IF isFalsy(parameter.selection)
                          THEN [kind |-> "atStart"]
                          ELSE getTextSelection(parameter.selection, doc)]

\* The parameters of a call.
Parameters(schemas, selections) ==
  [content : ContentChoices, onError : OnErrorChoices, stringHandler : StringHandlerChoices,
   schema : schemas, selection : selections]

UnchangedByDocuments ==
  UNCHANGED <<mgr, combined, config, extensions, presets, extensionMap, presetMap, clones, store,
              extensionStore, received, phase, firstStateUpdate, handlers, viewState, log,
              trace>>

CreateDocumentNode(parameter) ==
  /\ created.op = "none"
  /\ created' = [op |-> "createDocumentNode", parameter |-> parameter,
                 result |-> createDocumentNode(parameter)]
  /\ UnchangedByDocuments

CreateState(parameter) ==
  /\ mgr = "live"
  /\ created.op = "none"
  /\ created' = [op |-> "createState", parameter |-> [parameter EXCEPT !.schema = store.schema],
                 result |-> createState(store, parameter)]
  /\ UnchangedByDocuments

\* One document made per run, directly or through a manager in any phase.
NextDoc ==
  \/ \E list \in CombinedChoices : Create(list)
  \/ AddView("v1")
  \/ Destroy
  \/ \E parameter \in Parameters(SchemaChoices, {NoValue}) : CreateDocumentNode(parameter)
  \/ \E parameter \in Parameters({NoValue}, SelectionChoices) : CreateState(parameter)

SpecDoc == Init /\ [][NextDoc]_vars

\* ------------------------------------------------------------------------
\* The manager store as units write it
\* ------------------------------------------------------------------------

\* The values a unit writes under a key of the manager store.
StoreValues == [view |-> Views, schema |-> SchemaChoices]

\* A unit calls store.setStoreKey(key, value).
SetStoreKey(key, value) ==
  /\ Callable
  /\ store' = setStoreKey(store, key, value)
  /\ trace' = Append(trace, Call("setStoreKey", Undefined, Undefined, Undefined, key, Undefined))
  /\ UNCHANGED <<mgr, combined, config, extensions, presets, extensionMap, presetMap, clones,
                 created, extensionStore, received, phase, firstStateUpdate, handlers,
                 viewState, log>>

\* Writes to the manager store in any phase.
NextStore ==
  \/ \E list \in CombinedChoices : Create(list)
  \/ \E view \in Views : AddView(view)
  \/ \E parameter \in StateUpdates : OnStateUpdate(parameter.previousState, parameter.state)
  \/ Destroy
  \/ \E key \in DOMAIN StoreValues : \E value \in StoreValues[key] : SetStoreKey(key, value)

SpecStore == Init /\ [][NextStore]_vars

\* ------------------------------------------------------------------------
\* The manager store as units read it
\* ------------------------------------------------------------------------

ManagerStoreKeys == DOMAIN createInitialStore

\* isNullOrUndefined(value) for the value under a key: a key nothing has been stored
\* under holds the value the store started with.
isNullOrUndefined(key, value) == value = createInitialStore[key]

\* getStoreKey without its invariant.
getStoreKey_Unchecked(st, key) == [kind |-> "return", value |-> st[key]]

\* this.getStoreKey(key): the value returned, or the error thrown.
getStoreKey(st, key) ==
  IF isNullOrUndefined(key, st[key])
  THEN [kind |-> "throw", error |-> "MANAGER_PHASE_ERROR"]
  ELSE [kind |-> "return", value |-> st[key]]

\* A unit calls store.getStoreKey(key).
GetStoreKey(key) ==
  /\ mgr = "live"
  /\ created' = [op |-> "getStoreKey", key |-> key, result |-> getStoreKey(store, key)]
  /\ UnchangedByDocuments

\* Reads of the manager store in any phase.
NextGet ==
  \/ \E list \in CombinedChoices : Create(list)
  \/ \E view \in Views : AddView(view)
  \/ Destroy
  \/ \E key \in ManagerStoreKeys : GetStoreKey(key)

SpecGet == Init /\ [][NextGet]_vars

\* ------------------------------------------------------------------------
\* Invalid content of a JSON document
\* ------------------------------------------------------------------------

\* A path is written as the list of its (key, index) pairs: ['content', '0', 'marks', '1']
\* is <<Step("content", 0), Step("marks", 1)>>.
Step(key, index) == [key |-> key, index |-> index]

\* A node of a JSON document: its type, the types of its marks and its children.
JSONNode(type, marks, content) == [type |-> type, marks |-> marks, content |-> content]

\* The node with every node and mark beneath it as an object of its own: the id stands
\* for the identity of the object, and is the path it has in the document handed in.
RECURSIVE identified(_, _)
identified(json, path) ==
  [type |-> json.type, id |-> path,
   marks |-> [i \in DOMAIN json.marks |->
                [type |-> json.marks[i], id |-> Append(path, Step("marks", i - 1))]],
   content |-> [i \in DOMAIN json.content |->
                  identified(json.content[i], Append(path, Step("content", i - 1)))]]

\* The schemas: the node and mark types each one knows.
JSONSchemas ==
  {[nodes |-> {"doc", "paragraph", "text"}, marks |-> {"em", "strong"}],
   [nodes |-> {"doc", "paragraph", "text"}, marks |-> {"em"}]}

\* The documents: a doc node over blocks over inline nodes, with known and unknown
\* node and mark types at every level.
InlineChoices ==
  {JSONNode("text", <<>>, <<>>),
   JSONNode("text", <<"em", "bad", "strong", "worse">>, <<>>),
   JSONNode("invalid", <<"bad">>, <<>>)}

MaxInline == 2

InlineContents ==
  UNION {[1 .. n -> InlineChoices] : n \in 0 .. MaxInline}
  \cup {<<JSONNode("invalid", <<>>, <<>>), JSONNode("text", <<"em">>, <<>>),
          JSONNode("unknown", <<>>, <<>>)>>}

BlockChoices ==
  {JSONNode(type, marks, content) :
     type \in {"paragraph", "invalid"}, marks \in {<<>>, <<"bad">>}, content \in InlineContents}

WrapperChoices ==
  {JSONNode(type, <<>>, <<block>>) : type \in {"paragraph", "invalid"}, block \in BlockChoices}

MaxBlocks == 2

\* The blocks that stand beside each other in a document.
SiblingChoices == {block \in BlockChoices : block.marks = <<>> /\ Len(block.content) <= 1}

JSONDocuments ==
  {identified(JSONNode("doc", <<>>, content), <<>>) :
     content \in UNION {[1 .. n -> SiblingChoices] : n \in 0 .. MaxBlocks}
                 \cup {<<block>> : block \in BlockChoices \cup WrapperChoices}}

\* list.unshift(...items) adding at the end instead.
unshift_Push(list, items) == list \o items

\* list.unshift(...items)
unshift(list, items) == items \o list

\* getInvalidContent(parameter): the invalid blocks of json.
RECURSIVE getInvalidContent(_, _, _, _, _)
getInvalidContent(json, valid, path, invalidParentNode, invalidParentMark) ==
  LET \* the loop over marks.entries(), after index marks
      marks[index \in 0 .. Len(json.marks)] ==
        IF index = 0
        THEN [invalidMarks |-> <<>>, invalidParentMark |-> invalidParentMark]
        ELSE IF json.marks[index].type \in valid.validMarks
        THEN marks[index - 1]
        ELSE [invalidMarks |->
                unshift(marks[index - 1].invalidMarks,
                        <<[name |-> json.marks[index].type,
                           path |-> Append(path, Step("marks", index - 1)),
                           type |-> "mark",
                           invalidParentMark |-> marks[index - 1].invalidParentMark,
                           invalidParentNode |-> invalidParentNode]>>),
              invalidParentMark |-> TRUE]
      marked == marks[Len(json.marks)]
      own == IF json.type \notin valid.validNodes
             THEN <<[name |-> json.type, type |-> "node", path |-> path,
                     invalidParentMark |-> marked.invalidParentMark,
                     invalidParentNode |-> invalidParentNode]>>
             ELSE <<>>
      \* the loop over content.entries(), after index children
      invalidContent[index \in 0 .. Len(json.content)] ==
        IF index = 0 THEN <<>>
        ELSE unshift(invalidContent[index - 1],
                     getInvalidContent(json.content[index], valid,
                                       Append(path, Step("content", index - 1)),
                                       invalidParentNode \/ own # <<>>,
                                       marked.invalidParentMark))
  IN  unshift(marked.invalidMarks \o own, invalidContent[Len(json.content)])

\* The sequence without its element at index (counted from 0), as splice(index, 1).
splice(list, index) ==
  [i \in 1 .. Len(list) - 1 |-> IF i <= index THEN list[i] ELSE list[i + 1]]

\* unset(path, target): target without the element the path leads to. A path that
\* leads nowhere leaves the target as it is.
RECURSIVE unset(_, _)
unset(path, target) ==
  IF path = <<>> THEN target
  ELSE LET key == Head(path).key
           index == Head(path).index
       IN  IF index + 1 \notin DOMAIN target[key] THEN target
           ELSE IF Len(path) = 1
           THEN [target EXCEPT ![key] = splice(target[key], index)]
           ELSE [target EXCEPT ![key][index + 1] = unset(Tail(path), target[key][index + 1])]

\* The JSON after each block of the 'remove' loop: removing[i] is newJSON after i blocks.
removing(json, blocks) ==
  LET newJSON[i \in 0 .. Len(blocks)] ==
        IF i = 0 THEN json
        ELSE IF blocks[i].invalidParentNode THEN newJSON[i - 1]
        ELSE unset(blocks[i].path, newJSON[i - 1])
  IN  newJSON

\* transformers.remove that also passes over the blocks with an invalid mark before them.
remove_SkipsMarked(json, blocks) ==
  LET newJSON[i \in 0 .. Len(blocks)] ==
        IF i = 0 THEN json
        ELSE IF blocks[i].invalidParentNode \/ blocks[i].invalidParentMark THEN newJSON[i - 1]
        ELSE unset(blocks[i].path, newJSON[i - 1])
  IN  newJSON[Len(blocks)]

\* transformers.remove(json, blocks)
remove(json, blocks) == removing(json, blocks)[Len(blocks)]

\* transformInvalidJSON(json, schema, 'remove'): the JSON returned, and whether the
\* transformer was called.
transformInvalidJSON(json, schema) ==
  LET invalidContent ==
        getInvalidContent(json, [validMarks |-> schema.marks, validNodes |-> schema.nodes],
                          <<>>, FALSE, FALSE)
  IN  IF invalidContent # <<>>
      THEN [json |-> remove(json, invalidContent), transformed |-> TRUE]
      ELSE [json |-> json, transformed |-> FALSE]

\* transformInvalidJSON(json, schema, 'remove') is called.
TransformInvalidJSON(json, schema) ==
  /\ created.op = "none"
  /\ created' = [op |-> "transformInvalidJSON", json |-> json, schema |-> schema,
                 blocks |-> getInvalidContent(json, [validMarks |-> schema.marks,
                                                     validNodes |-> schema.nodes],
                                              <<>>, FALSE, FALSE),
                 result |-> transformInvalidJSON(json, schema)]
  /\ UnchangedByDocuments

\* One JSON document transformed per run.
NextJSON == \E json \in JSONDocuments : \E schema \in JSONSchemas : TransformInvalidJSON(json, schema)

SpecJSON == Init /\ [][NextJSON]_vars

\* ------------------------------------------------------------------------
\* Construction from lists with clashing units
\* ------------------------------------------------------------------------

\* Combined lists with and without two units of one name, and with and
\* without two units that return a command of one name.
ClashChoices ==
  {<<"a", "b">>, <<"a", "a2">>, <<"a2", "b">>, <<"a2", "b", "a">>,
   <<"paragraph", "hardBreak">>, <<"paragraph", "k", "b">>}

\* Construction from any of these lists, and the life of the manager made.
NextClash ==
  \/ \E list \in ClashChoices : Create(list)
  \/ AddView("v1")
  \/ \E parameter \in StateUpdates : OnStateUpdate(parameter.previousState, parameter.state)
  \/ GetState
  \/ Destroy

SpecClash == Init /\ [][NextClash]_vars

\* ------------------------------------------------------------------------
\* State updates with a unit that re-enters
\* ------------------------------------------------------------------------

\* Combined lists with a unit that calls store.updateState from its
\* onStateUpdate handler.
ReentrantChoices == {<<"a", "r", "b">>, <<"r", "a">>}

NextReentrant ==
  \/ \E list \in ReentrantChoices : Create(list)
  \/ \E view \in Views : AddView(view)
  \/ \E parameter \in StateUpdates : OnStateUpdate(parameter.previousState, parameter.state)
  \/ \E state \in EditorStates : UpdateState(state)
  \/ Destroy

SpecReentrant == Init /\ [][NextReentrant]_vars

\* ------------------------------------------------------------------------
\* A unit whose onView handler throws
\* ------------------------------------------------------------------------

ThrowChoices == {<<"a", "t", "b">>, <<"a", "b">>}

NextThrow ==
  \/ \E list \in ThrowChoices : Create(list)
  \/ \E view \in Views : AddView(view)
  \/ \E parameter \in StateUpdates : OnStateUpdate(parameter.previousState, parameter.state)
  \/ GetState
  \/ Destroy

SpecThrow == Init /\ [][NextThrow]_vars

\* ------------------------------------------------------------------------
\* The tag tables
\* ------------------------------------------------------------------------

TagChoices ==
  {<<"a", "b">>, <<"h", "a", "b">>, <<"paragraph", "b">>, <<"hardBreak", "paragraph", "a">>}

\* manager.getExtension(TagsExtension).onCreate() called once more.  The
\* unit's own tables are the ones it handed to the manager store.
TagsOnCreate ==
  /\ Callable
  /\ \E i \in DOMAIN extensions : extensions[i] = "tags"
  /\ LET tables == tagsOnCreate(store.tags, extensionStore.extensions)
         r      == setExtensionStore(phase, extensionStore, "tags", tables)
     IN  /\ store' = setStoreKey(store, "tags", tables)
         /\ extensionStore' = r.es
         /\ log' = Append(log, Entry("create", "tags", phase, NoParam,
                                     IF r.ok THEN "ok" ELSE "MANAGER_PHASE_ERROR",
                                     extensionStore))
         /\ trace' = Append(trace, Call("tags.onCreate", Undefined, Undefined, Undefined,
                                        Undefined,
                                        IF r.ok THEN Undefined ELSE "MANAGER_PHASE_ERROR"))
  /\ UNCHANGED <<mgr, combined, config, extensions, presets, extensionMap, presetMap, clones,
                 created, received, phase, firstStateUpdate, handlers, viewState>>

NextTags ==
  \/ \E list \in TagChoices : Create(list)
  \/ AddView("v1")
  \/ \E parameter \in StateUpdates : OnStateUpdate(parameter.previousState, parameter.state)
  \/ TagsOnCreate
  \/ Destroy

SpecTags == Init /\ [][NextTags]_vars

\* Lookups on a manager in any phase.
NextLookup ==
  \/ \E list \in CombinedChoices : Create(list)
  \/ \E exts \in ExtensionChoices, prs \in PresetChoices : FromObject(exts, prs)
  \/ AddView("v1")
  \/ Destroy
  \/ \E Constructor \in LookupChoices : GetExtension(Constructor)
  \/ \E Constructor \in LookupChoices : GetPreset(Constructor)

SpecLookup == Init /\ [][NextLookup]_vars

\* ------------------------------------------------------------------------
\* Reading the log and the trace
\* ------------------------------------------------------------------------

UnitNames == DOMAIN UnitDefs

\* The positions of the log entries of one kind, and of one kind and unit.
Indices(kind) == {i \in DOMAIN log : log[i].kind = kind}
IndicesOf(kind, unit) == {i \in DOMAIN log : log[i].kind = kind /\ log[i].unit = unit}

\* The position of a unit in manager.extensions.
Position(unit) == CHOOSE i \in DOMAIN extensions : extensions[i] = unit

\* The latest call.
LastCall == trace[Len(trace)]

\* The step is a call of the method `op`.
Called(op) == Len(trace') = Len(trace) + 1 /\ trace'[Len(trace')].op = op

\* The calls that ran manager.onStateUpdate: the direct ones and every
\* store.updateState that got past getState.
UpdateCalls ==
  {i \in DOMAIN trace : \/ trace[i].op = "onStateUpdate"
                        \/ trace[i].op = "updateState" /\ ~IsError(trace[i].result)}

\* ------------------------------------------------------------------------
\* C1
\* ------------------------------------------------------------------------

\* C1: over any sequence of calls the phase never decreases; once it is
\* Destroy it stays Destroy.
PhaseNeverDecreases == [][phase' >= phase]_vars

\* ------------------------------------------------------------------------
\* C2
\* ------------------------------------------------------------------------

\* C2: addView called while phase >= EditorView changes neither the stored
\* view nor the phase and invokes no handler; every onView handler is invoked
\* at most once, with the view that is stored.
AddViewIdempotent ==
  /\ [](\A u \in UnitNames : Cardinality(IndicesOf("view", u)) <= 1)
  /\ [](\A i \in Indices("view") : log[i].view = store.view)
  /\ [][Called("addView") /\ phase >= ManagerPhase.EditorView
          => UNCHANGED <<store, phase, log>>]_vars

\* C2 witness: a second addView with another view was made after the first
\* view had been attached and its onView handlers had run.
SecondAddViewMade ==
  /\ store.view # Undefined
  /\ Indices("view") # {}
  /\ \E i \in DOMAIN trace : /\ trace[i].op = "addView"
                             /\ trace[i].before >= ManagerPhase.EditorView
                             /\ trace[i].view # store.view

\* ------------------------------------------------------------------------
\* C3
\* ------------------------------------------------------------------------

\* C3: getState() fails with the phase error whenever no view has been
\* attached, and returns the state of the attached view otherwise.
GetStateNeedsView ==
  (trace # <<>> /\ LastCall.op = "getState")
    => IF store.view = Undefined
       THEN LastCall.result = "MANAGER_PHASE_ERROR"
       ELSE LastCall.result = viewState[store.view]

\* ------------------------------------------------------------------------
\* C4
\* ------------------------------------------------------------------------

\* C4: after N runs of onStateUpdate every onStateUpdate handler has been
\* invoked N times, in the order of manager.extensions within each run, its
\* first invocation with firstUpdate = TRUE and every later one with FALSE.
UpdateHandlersCounted ==
  mgr = "live" =>
    /\ \A u \in UnitNames :
         LET idx == IndicesOf("update", u)
         IN  IF \E p \in DOMAIN extensions : extensions[p] = u /\ "update" \in UnitDefs[u].hooks
             THEN /\ Cardinality(idx) = Cardinality(UpdateCalls)
                  /\ \A i \in idx : log[i].firstUpdate <=> (\A j \in idx : i <= j)
             ELSE idx = {}
    /\ \A i \in Indices("update"), j \in Indices("update") :
         (i < j /\ log[i].call = log[j].call) => Position(log[i].unit) < Position(log[j].unit)

\* C4 witness: two updates were run with an addView between them and a
\* destroy before the second.
UpdatesInterleaved ==
  \E i \in UpdateCalls, j \in DOMAIN trace, k \in DOMAIN trace, l \in UpdateCalls :
     /\ i < j /\ j < k /\ k < l
     /\ trace[j].op = "addView"
     /\ trace[k].op = "destroy"
     /\ Cardinality(Indices("update")) >= 4

\* ------------------------------------------------------------------------
\* C5
\* ------------------------------------------------------------------------

\* C5: a second destroy() invokes no onDestroy handler, so every onDestroy
\* handler is invoked at most once.
DestroyHandlersOnce == \A u \in UnitNames : Cardinality(IndicesOf("destroy", u)) <= 1

\* ------------------------------------------------------------------------
\* C6
\* ------------------------------------------------------------------------

\* C6: the attached view is torn down at most once, and its plugin states
\* are disposed at most once.
ViewDestroyedOnce ==
  /\ Cardinality(Indices("view.destroy")) <= 1
  /\ Cardinality(Indices("plugins.destroy")) <= 1

\* ------------------------------------------------------------------------
\* C7
\* ------------------------------------------------------------------------

\* C7: setExtensionStore sets the key exactly when the phase is at most
\* Create; in every later phase, from a handler or from outside, it fails
\* with the phase error and the extension store keeps the key's value.
SetExtensionStoreGated ==
  /\ [](\A i \in DOMAIN log :
          log[i].set # "none" =>
            /\ log[i].set = "ok" <=> log[i].phase <= ManagerPhase.Create
            /\ log[i].set = "MANAGER_PHASE_ERROR" <=> log[i].phase > ManagerPhase.Create)
  /\ [][/\ phase' > ManagerPhase.Create => extensionStore'.custom = extensionStore.custom
        /\ Called("setExtensionStore") =>
             IF phase <= ManagerPhase.Create
             THEN /\ ~IsError(trace'[Len(trace')].result)
                  /\ extensionStore' = [extensionStore EXCEPT
                                          !.custom = trace'[Len(trace')].value]
             ELSE /\ trace'[Len(trace')].result = "MANAGER_PHASE_ERROR"
                  /\ extensionStore' = extensionStore]_vars

\* C7 witness: a unit's call succeeded in onCreate, the same unit's call
\* failed in onView, and a call from outside failed after the view was
\* attached; the key still holds what onCreate stored.
SetExtensionStoreTried ==
  /\ \E i \in Indices("create") : log[i].set = "ok" /\ extensionStore.custom = log[i].unit
  /\ \E i \in Indices("view") : log[i].set = "MANAGER_PHASE_ERROR"
  /\ \E i \in DOMAIN trace : /\ trace[i].op = "setExtensionStore"
                             /\ trace[i].before > ManagerPhase.Create
                             /\ trace[i].result = "MANAGER_PHASE_ERROR"

\* ------------------------------------------------------------------------
\* C8
\* ------------------------------------------------------------------------

\* C8: after destroy() no onStateUpdate handler and no onView handler is
\* invoked and no stateUpdate event is emitted.
HaltedAfterDestroy ==
  \A i \in Indices("emit:destroy"), j \in DOMAIN log :
     j > i => log[j].kind \notin {"update", "emit:stateUpdate", "view"}

\* ------------------------------------------------------------------------
\* C9
\* ------------------------------------------------------------------------

\* C9: within every round of every hook kind the handlers run in the order
\* of manager.extensions, and that order does not change after construction.
HandlersInExtensionOrder ==
  /\ [](\A i \in DOMAIN log, j \in DOMAIN log :
          (/\ i < j
           /\ log[i].kind \in HookKinds
           /\ log[i].kind = log[j].kind
           /\ log[i].call = log[j].call)
            => Position(log[i].unit) < Position(log[j].unit))
  /\ [][mgr = "live" => extensions' = extensions /\ handlers' = handlers]_vars

\* C9 witness: a round of each of the four kinds has run in which two units
\* that both define the hook were invoked.
AllHookKindsRan ==
  \A kind \in HookKinds :
     \E i \in Indices(kind), j \in Indices(kind) : i < j /\ log[i].call = log[j].call

\* ------------------------------------------------------------------------
\* C10
\* ------------------------------------------------------------------------

\* C10: the constructor called without the privacy symbol fails with
\* NEW_EDITOR_MANAGER with the combined list unresolved, the phase None, no
\* unit given the extension store and no handler run; a manager comes only
\* from create or fromObject.
ConstructorNeedsPrivacy ==
  /\ (trace # <<>> /\ trace[1].op = "new") =>
        /\ mgr = "failed"
        /\ trace[1].result = "NEW_EDITOR_MANAGER"
        /\ extensions = <<>> /\ presets = <<>>
        /\ phase = ManagerPhase.None
        /\ received = {}
        /\ handlers = EmptyHandlers
        /\ log = <<>>
  /\ mgr = "live" => trace[1].op \in {"create", "fromObject"} /\ trace[1].result = "manager"

\* C10 witness: the constructor was called directly with a list of units
\* that define onCreate.
ConstructorCalledDirectly ==
  /\ trace # <<>> /\ trace[1].op = "new"
  /\ \E i \in DOMAIN combined : "create" \in UnitDefs[combined[i]].hooks

\* ------------------------------------------------------------------------
\* C11
\* ------------------------------------------------------------------------

\* The unit is in manager.extensions and defines the hook.
Defines(unit, kind) ==
  /\ \E p \in DOMAIN extensions : extensions[p] = unit
  /\ kind \in UnitDefs[unit].hooks

\* C11: when create() has returned, the phase is Create, no view is stored,
\* every onCreate handler has run exactly once and observed the phase Create,
\* and no handler of another kind has run.
CreateReturnsInCreatePhase ==
  (Len(trace) = 1 /\ mgr = "live") =>
    /\ phase = ManagerPhase.Create
    /\ store.view = Undefined
    /\ \A u \in UnitNames :
         Cardinality(IndicesOf("create", u)) = IF Defines(u, "create") THEN 1 ELSE 0
    /\ \A i \in DOMAIN log : log[i].kind = "create" /\ log[i].phase = ManagerPhase.Create

\* C11 witness: create() has just returned a manager three of whose units
\* define onCreate.
CreateReturned ==
  /\ Len(trace) = 1 /\ mgr = "live" /\ trace[1].op = "create"
  /\ Cardinality(Indices("create")) >= 3

\* ------------------------------------------------------------------------
\* C12
\* ------------------------------------------------------------------------

\* The log entries the step appends.
Appended == {i \in DOMAIN log' : i > Len(log)}

\* C12: destroy() on a manager in phase Create returns normally, sets the
\* phase to Destroy, runs every onDestroy handler once, emits one destroy
\* event and makes no call on a view.
DestroyWithoutViewIsSafe ==
  [][(Called("destroy") /\ phase = ManagerPhase.Create) =>
       /\ ~IsError(trace'[Len(trace')].result)
       /\ phase' = ManagerPhase.Destroy
       /\ \A u \in UnitNames :
            Cardinality({i \in Appended : log'[i].kind = "destroy" /\ log'[i].unit = u})
              = IF Defines(u, "destroy") THEN 1 ELSE 0
       /\ Cardinality({i \in Appended : log'[i].kind = "emit:destroy"}) = 1
       /\ \A i \in Appended : log'[i].kind \in {"destroy", "emit:destroy"}]_vars

\* C12 witness: destroy() was called in phase Create on a manager with two
\* onDestroy handlers and no view.
DestroyedWithoutView ==
  /\ store.view = Undefined
  /\ \E i \in DOMAIN trace : trace[i].op = "destroy" /\ trace[i].before = ManagerPhase.Create
  /\ Cardinality(Indices("destroy")) >= 2

\* ------------------------------------------------------------------------
\* C13
\* ------------------------------------------------------------------------

\* The place of each kind of entry in the sequence of one destroy() call.
DestroyRank ==
  [kind \in {"plugins.destroy", "destroy", "view.destroy", "emit:destroy"} |->
     CASE kind = "plugins.destroy" -> 1
       [] kind = "destroy"         -> 2
       [] kind = "view.destroy"    -> 3
       [] kind = "emit:destroy"    -> 4]

\* The calls that are destroy() calls.
DestroyCalls == {c \in DOMAIN trace : trace[c].op = "destroy"}

StateUpdateStepsInOrder ==
  /\ UpdateCalls = {} => extensionStore.currentState = Undefined
  /\ \A c \in UpdateCalls :
       LET es == {i \in DOMAIN log : log[i].call = c}
           hs == {i \in es : log[i].kind = "update"}
           em == {i \in es : log[i].kind = "emit:stateUpdate"}
       IN  /\ es = hs \cup em
           /\ Cardinality(em) = 1
           /\ \A i \in hs, j \in em : i < j
           /\ \A u \in UnitNames :
                Cardinality({i \in hs : log[i].unit = u})
                  = IF Defines(u, "update") THEN 1 ELSE 0
           /\ \A i \in es : /\ log[i].state = trace[c].state
                            /\ log[i].previousState = trace[c].previousState
           /\ \A i \in es, j \in es : log[i].firstUpdate = log[j].firstUpdate
           /\ \A i \in hs : /\ log[i].currentState = trace[c].state
                            /\ log[i].storePrevious = trace[c].previousState

\* C14 witness: two runs with different states were made on a manager with
\* several onStateUpdate handlers.
TwoStateUpdatesRan ==
  \E c \in UpdateCalls, d \in UpdateCalls :
     /\ c < d
     /\ trace[c].state # trace[d].state
     /\ Cardinality({i \in DOMAIN log : log[i].call = d /\ log[i].kind = "update"}) >= 2

\* ------------------------------------------------------------------------
\* C15
\* ------------------------------------------------------------------------

\* Everything but the trace.
ManagerState == <<mgr, combined, extensions, presets, extensionMap, presetMap, clones,
                  created, store, extensionStore, received, phase, firstStateUpdate,
                  handlers, viewState, log>>

\* The members of a list whose constructor is `Constructor`.
InstancesOf(list, Constructor) ==
  {list[i] : i \in {p \in DOMAIN list : ConstructorOf[list[p]] = Constructor}}

\* C15: getExtension(C) returns the unit of manager.extensions whose
\* constructor is C and throws the invalid-manager-extension error naming C
\* when there is none; getPreset does the same over manager.presets with the
\* invalid-manager-preset error; neither returns undefined or changes the
\* manager.
LookupFindsOrThrows ==
  [][/\ Called("getExtension") =>
          LET c == trace'[Len(trace')]
          IN  /\ c.result # Undefined
              /\ IF InstancesOf(extensions, c.value) # {}
                 THEN c.result \in InstancesOf(extensions, c.value)
                 ELSE c.result = InvalidManagerExtension[c.value]
              /\ UNCHANGED ManagerState
     /\ Called("getPreset") =>
          LET c == trace'[Len(trace')]
          IN  /\ c.result # Undefined
              /\ IF InstancesOf(presets, c.value) # {}
                 THEN c.result \in InstancesOf(presets, c.value)
                 ELSE c.result = InvalidManagerPreset[c.value]
              /\ UNCHANGED ManagerState]_vars

\* C15 witness: on one manager an extension was found, an extension lookup
\* failed, a preset was found and a preset lookup failed.
LookupsMade ==
  /\ \E i \in DOMAIN trace : trace[i].op = "getExtension" /\ trace[i].result \in UnitNames
  /\ \E i \in DOMAIN trace : /\ trace[i].op = "getExtension"
                             /\ trace[i].result = InvalidManagerExtension[trace[i].value]
  /\ \E i \in DOMAIN trace : trace[i].op = "getPreset" /\ trace[i].result \in PresetNames
  /\ \E i \in DOMAIN trace : /\ trace[i].op = "getPreset"
                             /\ trace[i].result = InvalidManagerPreset[trace[i].value]

\* ------------------------------------------------------------------------
\* C16
\* ------------------------------------------------------------------------

\* How many members of a combined list are the built-in bundle.
Builtins(list) == Cardinality({i \in DOMAIN list : list[i] = "builtin"})

\* C16: every manager's combined set holds exactly one built-in bundle, the
\* manager returned by create() and every manager obtained from it through
\* clone() and recreate().
OneBuiltinBundle ==
  /\ mgr = "live" => Builtins(combined) = 1
  /\ \A i \in DOMAIN clones : Builtins(clones[i].combined) = 1

\* ------------------------------------------------------------------------
\* C17
\* ------------------------------------------------------------------------

\* C17: clone() and recreate() return a new manager in phase Create with no
\* view, whatever the phase of the manager they are called on, and leave the
\* phase, stored view, manager store, extension list and handler log of that
\* manager, and every other manager, unchanged.
CloneLeavesOriginal ==
  [][Called("clone") \/ Called("recreate") =>
       /\ Len(clones') = Len(clones) + 1
       /\ clones'[Len(clones')].phase = ManagerPhase.Create
       /\ clones'[Len(clones')].store.view = Undefined
       /\ \A i \in DOMAIN clones : clones'[i] = clones[i]
       /\ UNCHANGED <<mgr, phase, store, extensions, presets, combined, log, viewState,
                      extensionStore, handlers, firstStateUpdate>>]_vars

\* C17 witness: a clone was made of a manager with a view attached, and a
\* recreation of a destroyed manager.
ClonedMountedAndDestroyed ==
  /\ \E i \in DOMAIN trace : /\ trace[i].op = "clone"
                             /\ trace[i].value = "0"
                             /\ trace[i].before = ManagerPhase.EditorView
  /\ \E i \in DOMAIN trace : /\ trace[i].op = "recreate"
                             /\ trace[i].value = "0"
                             /\ trace[i].before = ManagerPhase.Destroy
  /\ store.view # Undefined
  /\ Len(clones) = 2

\* ------------------------------------------------------------------------
\* C18
\* ------------------------------------------------------------------------

\* The document of the latest createState / createDocumentNode call.
DocumentCreated ==
  IF created.op = "createState" /\ created.result.kind = "state"
  THEN created.result.doc
  ELSE created.result

\* The content of a call is of no recognized shape, or JSON the schema rejects.
Unrecognized(parameter) ==
  /\ parameter.content.kind # "node"
  /\ IF isRemirrorJSON(parameter.content)
     THEN nodeFromJSON(parameter.schema, parameter.content).kind = "throw"
     ELSE ~(isString(parameter.content) /\ parameter.stringHandler # NoValue)

\* The fallback the caller supplied: the value itself, or what the function returns.
CallerFallback(parameter) ==
  IF isFunction(parameter.onError) THEN parameter.onError.returns ELSE parameter.onError

\* C18: for content of an unrecognized shape, or JSON the schema rejects,
\* with an onError supplied, the resulting document is the caller's fallback
\* (the value itself or the value its function returns) and nothing is thrown.
OnErrorFallbackUsed ==
  created.op \in {"createState", "createDocumentNode"}
    /\ Unrecognized(created.parameter)
    /\ created.parameter.onError # NoValue
  => /\ DocumentCreated.kind # "throw"
     /\ DocumentCreated = createFallback(CallerFallback(created.parameter),
                                         created.parameter.schema)

\* ------------------------------------------------------------------------
\* C19
\* ------------------------------------------------------------------------

\* C19: for content that is already a document node, createState returns a
\* state whose document is that node and createDocumentNode returns the node
\* itself, whatever onError, stringHandler and schema are.
NodeContentReturned ==
  created.op \in {"createState", "createDocumentNode"}
    /\ created.parameter.content.kind = "node"
  => DocumentCreated = created.parameter.content

\* C19 witness: createState was given a node together with an onError and a
\* stringHandler, and returned a state.
StateCreatedFromNode ==
  /\ created.op = "createState"
  /\ created.parameter.content = CallerNode
  /\ created.parameter.onError = Function(FallbackJSON)
  /\ created.parameter.stringHandler # NoValue
  /\ created.result.kind = "state"

\* ------------------------------------------------------------------------
\* C20
\* ------------------------------------------------------------------------

\* C20: once a key of the manager store has a value no later operation
\* changes it: the schema, set during construction, and the view, set by
\* addView, keep their values in every phase, also when a unit calls
\* setStoreKey for them.
StoreKeysWrittenOnce ==
  [][/\ mgr = "live" => store'.schema = store.schema
     /\ store.view # Undefined => store'.view = store.view]_vars

\* ------------------------------------------------------------------------
\* C21
\* ------------------------------------------------------------------------

\* The first position of a unit in a list.
PositionIn(list, unit) == CHOOSE i \in DOMAIN list : list[i] = unit /\ \A j \in 1..(i - 1) : list[j] # unit

\* C21: manager.extensions holds the units of the combined list, the
\* built-in bundle's included, by descending priority, units of one priority
\* in the order in which the expanded combined list holds them; [A, B] and
\* [B, A] both give a before b.
ExtensionsByPriority ==
  mgr = "live" =>
    /\ {extensions[i] : i \in DOMAIN extensions}
         = {expandCombined(combined)[i] : i \in DOMAIN expandCombined(combined)}
    /\ \A i, j \in DOMAIN extensions :
         i < j =>
           /\ UnitDefs[extensions[i]].priority >= UnitDefs[extensions[j]].priority
           /\ UnitDefs[extensions[i]].priority = UnitDefs[extensions[j]].priority
                => PositionIn(expandCombined(combined), extensions[i])
                     < PositionIn(expandCombined(combined), extensions[j])
    /\ combined \in {<<"a", "b", "builtin">>, <<"b", "a", "builtin">>}
         => PositionIn(extensions, "a") < PositionIn(extensions, "b")

\* C21 witness: the caller passed [B, A]; a precedes b, and b, the caller's
\* unit, precedes the built-in doc unit of the same priority.
SortedFromReversedInput ==
  /\ mgr = "live"
  /\ combined = <<"b", "a", "builtin">>
  /\ extensions = <<"tags", "a", "b", "doc">>

\* ------------------------------------------------------------------------
\* C22
\* ------------------------------------------------------------------------

\* The units of a combined list.
UnitsOf(list) == {expandCombined(list)[i] : i \in DOMAIN expandCombined(list)}

\* The list holds two units of one variant with one name.
SameNameUnits(list) ==
  \E u, v \in UnitsOf(list) :
    /\ u # v
    /\ UnitDefs[u].variant = UnitDefs[v].variant
    /\ UnitDefs[u].name = UnitDefs[v].name

SameCommandUnits(list) ==
  \E u, v \in UnitsOf(list) : u # v /\ UnitDefs[u].commands \cap UnitDefs[v].commands # {}

\* C23: for a combined list with two units that register a command of one
\* name create() fails with the duplicate-command-names error, and in a
\* manager that was created no two units share a command name.
DuplicateCommandFailsCreate ==
  [][Called("create") =>
       /\ SameCommandUnits(combined') =>
            /\ mgr' = "failed"
            /\ trace'[Len(trace')].result \in {"DUPLICATE_COMMAND_NAMES", "DUPLICATE_NAME"}
            /\ ~SameNameUnits(combined')
                 => trace'[Len(trace')].result = "DUPLICATE_COMMAND_NAMES"
       /\ mgr' = "live" =>
            \A i, j \in DOMAIN extensions' :
              i # j => UnitDefs[extensions'[i]].commands
                         \cap UnitDefs[extensions'[j]].commands = {}]_vars

\* C23 witness: create([paragraph, k, b]) failed on the command both
\* paragraph and k register.
CreateFailedOnDuplicateCommand ==
  /\ mgr = "failed"
  /\ combined = <<"paragraph", "k", "b", "builtin">>
  /\ LastCall.result = "DUPLICATE_COMMAND_NAMES"

\* ------------------------------------------------------------------------
\* C24
\* ------------------------------------------------------------------------

\* manager.mounted
mounted == phase >= ManagerPhase.EditorView /\ phase < ManagerPhase.Destroy

\* C24: whenever the manager reports mounted, a view is stored in the
\* manager store: the phase does not reach Runtime before addView attached a
\* view, however addView and onStateUpdate calls interleave.
MountedHasView == mgr = "live" /\ mounted => store.view # Undefined

\* ------------------------------------------------------------------------
\* C25
\* ------------------------------------------------------------------------

\* C25: every onStateUpdate handler is passed the state that is the
\* extension store's currentState when it is invoked, and every unit's
\* handler sees the updates in the order in which they were issued, also
\* when a handler of the round calls store.updateState with a newer state.
HandlersSeeCurrentState ==
  /\ \A i \in Indices("update") : log[i].state = log[i].currentState
  /\ \A i, j \in Indices("update") :
       i < j /\ log[i].unit = log[j].unit => log[i].round <= log[j].round

\* ------------------------------------------------------------------------
\* C26
\* ------------------------------------------------------------------------

\* The units whose onView handler comes after one that throws.
AfterThrower ==
  {handlers.view[j] : j \in {p \in DOMAIN handlers.view :
                               \E i \in 1..(p - 1) : "view" \in UnitDefs[handlers.view[i]].throws}}

\* C26: every onView handler is invoked in phase EditorView; an addView
\* call that ends with a handler's error leaves the manager in phase
\* EditorView with the view stored, and the handlers after the one that
\* threw are invoked neither by that call nor by a later addView call.
AddViewDoesNotRollBack ==
  /\ [][Called("addView") /\ trace'[Len(trace')].result = "HandlerError" =>
          /\ phase' = ManagerPhase.EditorView
          /\ store'.view = trace'[Len(trace')].view]_vars
  /\ [](/\ \A i \in Indices("view") : log[i].phase = ManagerPhase.EditorView
        /\ \A u \in AfterThrower : IndicesOf("view", u) = {})

\* C26 witness: addView threw from t's handler, addView was called again,
\* the first view is stored and b's handler, the one after t's, never ran.
AddViewCalledAfterThrow ==
  /\ \E i, j \in DOMAIN trace :
       /\ i < j
       /\ trace[i].op = "addView" /\ trace[i].result = "HandlerError"
       /\ trace[j].op = "addView"
       /\ store.view = trace[i].view
  /\ phase = ManagerPhase.EditorView
  /\ IndicesOf("view", "t") # {}
  /\ "b" \in AfterThrower

\* ------------------------------------------------------------------------
\* C27
\* ------------------------------------------------------------------------

\* The onCreate invocations the constructor made.
ConstructorCreates == {i \in Indices("create") : log[i].call = 1}

\* C27: the tag tables are written before the phase is Create, and the
\* onCreate handler of every unit finds them in its store.
TagsBeforeCreateHandlers ==
  \A i \in ConstructorCreates :
    IF log[i].unit = "tags"
    THEN log[i].phase < ManagerPhase.Create
    ELSE log[i].tags.kind = "tags"

\* ------------------------------------------------------------------------
\* C28
\* ------------------------------------------------------------------------

\* How often a list holds a name.
Count(list, name) == Cardinality({p \in DOMAIN list : list[p] = name})

\* The general tags a unit declares.
Declared(unit) == UnitDefs[unit].tags \cup UnitDefs[unit].extensionTags

\* A list of unit names follows the order of manager.extensions.
InExtensionsOrder(list) ==
  \A p, q \in DOMAIN list :
    p < q => PositionIn(names(extensions), list[p]) < PositionIn(names(extensions), list[q])

\* The unit's name is once in the list under `key`.
ListedOnce(table, key, unit) ==
  key \in DOMAIN table /\ Count(table[key], UnitDefs[unit].name) = 1

\* C28: every node unit is once under its group in the node table, every
\* mark unit once under its group in the mark table, every unit once under
\* each general tag it declares, every list in the order of
\* manager.extensions, and both stores hold the same tables.
TagTablesListUnits ==
  mgr = "live" =>
    /\ store.tags.kind = "tags"
    /\ store.tags = extensionStore.tags
    /\ \A i \in DOMAIN extensions :
         LET unit == extensions[i]
         IN  /\ UnitDefs[unit].variant = "node" =>
                  ListedOnce(store.tags.node, UnitDefs[unit].group, unit)
             /\ UnitDefs[unit].variant = "mark" =>
                  ListedOnce(store.tags.mark, UnitDefs[unit].group, unit)
             /\ \A tag \in Declared(unit) : ListedOnce(store.tags.general, tag, unit)
    /\ \A table \in {store.tags.general, store.tags.mark, store.tags.node} :
         \A key \in DOMAIN table : InExtensionsOrder(table[key])

\* ------------------------------------------------------------------------
\* C29
\* ------------------------------------------------------------------------

\* C29: a unit that declares a general tag is in the list of that tag; the
\* paragraph unit is in the list of lastNodeCompatible.
DeclaredTagFindsUnit ==
  mgr = "live" =>
    /\ \A i \in DOMAIN extensions : \A tag \in Declared(extensions[i]) :
         /\ tag \in DOMAIN store.tags.general
         /\ Count(store.tags.general[tag], UnitDefs[extensions[i]].name) > 0
    /\ (\E i \in DOMAIN extensions : extensions[i] = "paragraph") =>
         Count(store.tags.general["lastNodeCompatible"], "paragraph") > 0

\* ------------------------------------------------------------------------
\* C30
\* ------------------------------------------------------------------------

\* No list of the tables holds a name twice.
NoNameTwice(tables) ==
  \A table \in {tables.general, tables.mark, tables.node} :
    \A key \in DOMAIN table : \A p, q \in DOMAIN table[key] :
      table[key][p] = table[key][q] => p = q

\* C30: TagsExtension.onCreate run once more over the same units hands
\* over tables equal to those of the run before, with no name twice.
TagsOnCreateIdempotent ==
  [][Called("tags.onCreate") =>
       /\ store'.tags = store.tags
       /\ NoNameTwice(store'.tags)
       /\ phase <= ManagerPhase.Create => extensionStore'.tags = extensionStore.tags]_vars

\* C30 witness: onCreate ran three times on a manager with node and mark
\* units, the last time in phase Create.
TagsOnCreateRanAgain ==
  /\ Len(trace) >= 3
  /\ trace[Len(trace)].op = "tags.onCreate" /\ trace[Len(trace)].result = Undefined
  /\ trace[Len(trace) - 1].op = "tags.onCreate"
  /\ store.tags.node["block"] # <<>>
  /\ store.tags.mark["fontStyle"] # <<>>
  /\ extensionStore.tags = store.tags

\* ------------------------------------------------------------------------
\* C31
\* ------------------------------------------------------------------------

\* The log entries the step appends.
NewEntries == {i \in DOMAIN log' : i > Len(log)}

\* C31: store.updateState(s) with a view attached takes the view's state as
\* previousState, gives the view the state s and runs onStateUpdate with
\* that previousState and s, which differ when s is not the state the view
\* held; with no view attached it fails with the phase error and updates
\* no view, invokes no handler and emits no event.
UpdateStateReadsThenUpdates ==
  [][Called("updateState") =>
       LET call == trace'[Len(trace')]
       IN  IF store.view = Undefined
           THEN /\ call.result = "MANAGER_PHASE_ERROR"
                /\ UNCHANGED <<viewState, log, extensionStore, phase>>
           ELSE /\ call.previousState = viewState[store.view]
                /\ call.state # viewState[store.view] => call.previousState # call.state
                /\ viewState' = [viewState EXCEPT ![store.view] = call.state]
                /\ \E i \in NewEntries : log'[i].kind = "emit:stateUpdate"
                /\ \A i \in NewEntries :
                     /\ log'[i].kind \in {"update", "emit:stateUpdate"}
                     /\ log'[i].previousState = viewState[store.view]
                     /\ log'[i].state = call.state]_vars

\* ------------------------------------------------------------------------
\* C32
\* ------------------------------------------------------------------------

\* The manager the step adds to the clones.
NewClone == clones'[Len(clones')]

\* The members of a combined list.
MembersOf(list) == {list[i] : i \in DOMAIN list}

\* C32: the manager clone() returns has every member of the original's
\* combined list, in order, made with that member's current options, and it
\* has the original's settings; the manager recreate(extra, settings)
\* returns has every member made with its initial options, the extra units
\* after them, and the settings passed.
CloneOptionsAndSettings ==
  [][/\ \A src \in Sources :
          Clone(src) /\ Len(clones') > Len(clones) =>
            /\ SubSeq(NewClone.combined, 1, Len(Manager(src).combined))
                 = Manager(src).combined
            /\ \A e \in MembersOf(Manager(src).combined) :
                 NewClone.options[e] = Manager(src).options[e]
            /\ NewClone.settings = Manager(src).settings
     /\ \A src \in Sources, extra \in ExtraChoices, settings \in SettingsChoices :
          Recreate(src, extra, settings) /\ Len(clones') > Len(clones) =>
            /\ SubSeq(NewClone.combined, 1, Len(Manager(src).combined) + Len(extra))
                 = Manager(src).combined \o extra
            /\ \A e \in MembersOf(Manager(src).combined) :
                 NewClone.options[e] = Manager(src).initialOptions[e]
            /\ NewClone.settings = settings]_vars

\* C32 witness: a unit of the manager had its options set, recreate made a
\* manager with other settings and an extra unit, and a clone of that
\* manager was made after one of its units had its options set.
ClonedAfterSetOptions ==
  /\ Len(clones) = 2
  /\ config.options["a"] # config.initialOptions["a"]
  /\ clones[1].settings = "s1"
  /\ clones[1].options["a"] = InitialOptions
  /\ clones[1].options["b"] # InitialOptions
  /\ clones[1].combined = <<"a", "b", "builtin", "c", "builtin">>
  /\ clones[2].settings = "s1"
  /\ clones[2].options["b"] = clones[1].options["b"]
  /\ \E i, j, k \in DOMAIN trace :
       /\ i < j /\ j < k
       /\ trace[i].op = "recreate" /\ trace[i].value = "0"
       /\ trace[j].op = "setOptions"
       /\ trace[k].op = "clone" /\ trace[k].value = "1"

\* ------------------------------------------------------------------------
\* C33
\* ------------------------------------------------------------------------

\* The document schema.nodeFromJSON makes of a doc with the given children.
DocNode(children) ==
  [kind |-> "node", origin |-> "nodeFromJSON", id |-> "doc", content |-> children,
   nodeSize |-> 2 + 2 * Len(children)]

\* The content has none of the shapes createDocumentNode knows.
UnrecognizedShape(parameter) ==
  /\ parameter.content.kind # "node"
  /\ ~isRemirrorJSON(parameter.content)
  /\ ~(isString(parameter.content) /\ parameter.stringHandler # NoValue)

\* C33: a JSON document the schema takes gives schema.nodeFromJSON(content),
\* a string with a stringHandler gives what the handler returns, any other
\* value that is not a node gives a fallback document, and without an
\* onError that document is the empty-paragraph document for a schema whose
\* doc content starts with 'block' and the empty document for any other.
ContentShapeSelectsResult ==
  created.op \in {"createState", "createDocumentNode"} =>
    LET parameter == created.parameter
        content   == parameter.content
    IN  /\ isRemirrorJSON(content) /\ MembersOf(content.content) \subseteq parameter.schema.nodes
             => DocumentCreated = DocNode(content.content)
        /\ isString(content) /\ parameter.stringHandler # NoValue
             => /\ DocumentCreated.kind = "node"
                /\ DocumentCreated.origin = parameter.stringHandler.returns
        /\ UnrecognizedShape(parameter)
             => /\ DocumentCreated.kind = "node"
                /\ parameter.onError = NoValue
                     => DocumentCreated = IF parameter.schema.doc \in {"block+", "block*"}
                                          THEN DocNode(<<"paragraph">>)
                                          ELSE DocNode(<<>>)

\* C34: a state made by createState with 'start', 'end', a position or a {from, to} pair
\* has every position of its selection within 0 .. doc.nodeSize - 2; 'start' selects at
\* position 0 and 'end' at doc.nodeSize - 2; with no selection given the state keeps the
\* selection it was created with, no selection transaction being applied.
SelectionWithinDocument ==
  (created.op = "createState" /\ created.result.kind = "state") =>
    LET selection == created.parameter.selection
        state == created.result
        max == state.doc.nodeSize - 2
    IN  /\ selection = NoValue => state.selection.kind = "atStart"
        /\ state.selection.kind # "atStart" =>
              /\ selection # NoValue
              /\ state.selection.anchor \in 0 .. max
              /\ state.selection.head \in 0 .. max
        /\ selection.kind \in {"string", "fromTo"} => state.selection.kind # "atStart"
        /\ (selection.kind = "number" /\ selection.value # 0) =>
              state.selection.kind # "atStart"
        /\ selection = [kind |-> "string", text |-> "start"] =>
              state.selection = near(state.doc, 0)
        /\ selection = [kind |-> "string", text |-> "end"] =>
              state.selection = near(state.doc, max)
        /\ selection.kind = "fromTo" =>
              /\ state.selection.anchor = clamp(0, max, selection.from)
              /\ state.selection.head = clamp(0, max, selection.to)

\* A position beyond the document and a pair reaching outside it were both given.
SelectionClampedToDocument ==
  /\ created.op = "createState"
  /\ created.result.kind = "state"
  /\ created.result.doc.nodeSize > 2
  /\ \/ /\ created.parameter.selection.kind = "number"
        /\ created.parameter.selection.value > created.result.doc.nodeSize - 2
     \/ /\ created.parameter.selection.kind = "fromTo"
        /\ created.parameter.selection.from < 0
  /\ created.result.selection.kind = "TextSelection"

\* C35: getStoreKey(key) returns the value stored under the key when that value is
\* neither null nor undefined and otherwise throws the manager phase error; it never
\* returns null or undefined, and it leaves the store as it was.
GetStoreKeyReturnsOrThrows ==
  [][\A key \in ManagerStoreKeys :
       GetStoreKey(key) =>
         /\ store' = store
         /\ IF key = "view" /\ store.view \notin Views
            THEN created'.result = [kind |-> "throw", error |-> "MANAGER_PHASE_ERROR"]
            ELSE /\ created'.result.kind = "return"
                 /\ created'.result.value = store[key]
                 /\ created'.result.value # createInitialStore[key]]_vars

\* getStoreKey('view') was called before a view was added, and threw.
GetViewKeyBeforeAddView ==
  /\ created.op = "getStoreKey"
  /\ created.key = "view"
  /\ phase < ManagerPhase.EditorView
  /\ created.result.kind = "throw"

\* The node types and the mark types that occur in a JSON node.
RECURSIVE nodeTypes(_)
nodeTypes(json) ==
  {json.type} \cup UNION {nodeTypes(json.content[i]) : i \in DOMAIN json.content}

RECURSIVE markTypes(_)
markTypes(json) ==
  {json.marks[i].type : i \in DOMAIN json.marks}
  \cup UNION {markTypes(json.content[i]) : i \in DOMAIN json.content}

\* The node with the marks and children of known type only, in their order, and the
\* same done to every child kept.
RECURSIVE knownPartOf(_, _)
knownPartOf(json, schema) ==
  LET knownMark(mark) == mark.type \in schema.marks
      knownNode(node) == node.type \in schema.nodes
      kept == SelectSeq(json.content, knownNode)
  IN  [json EXCEPT !.marks = SelectSeq(json.marks, knownMark),
                   !.content = [i \in DOMAIN kept |-> knownPartOf(kept[i], schema)]]

\* C36: transformInvalidJSON(json, schema, 'remove') returns a document with no node
\* type and no mark type unknown to the schema, in which every node and mark of a known
\* type that is not beneath a removed node is kept, in its order; a document without an
\* unknown type is itself returned, the transformer not being called.
RemoveLeavesKnownTypes ==
  created.op = "transformInvalidJSON" =>
    LET json == created.json
        schema == created.schema
        result == created.result
        valid == nodeTypes(json) \subseteq schema.nodes /\ markTypes(json) \subseteq schema.marks
    IN  /\ nodeTypes(result.json) \subseteq schema.nodes
        /\ markTypes(result.json) \subseteq schema.marks
        /\ result.json = knownPartOf(json, schema)
        /\ valid => result.json = json
        /\ valid <=> ~result.transformed

\* A document with an unknown node and an unknown mark was transformed, and kept a child.
UnknownTypesRemoved ==
  /\ created.op = "transformInvalidJSON"
  /\ created.result.transformed
  /\ ~(nodeTypes(created.json) \subseteq created.schema.nodes)
  /\ ~(markTypes(created.json) \subseteq created.schema.marks)
  /\ markTypes(created.result.json) # {}
  /\ Len(created.result.json.content) < Len(created.json.content)

\* p is the beginning of q, and shorter.
IsProperPrefix(p, q) == Len(p) < Len(q) /\ SubSeq(q, 1, Len(p)) = p

\* p and q part at step k: they agree before it, and differ at it.
PartAt(p, q, k) ==
  /\ k <= Len(p)
  /\ k <= Len(q)
  /\ SubSeq(p, 1, k - 1) = SubSeq(q, 1, k - 1)
  /\ p[k] # q[k]

\* The node or mark the path leads to, if it leads to one.
RECURSIVE elementAt(_, _)
elementAt(json, path) ==
  IF path = <<>> THEN json
  ELSE IF Head(path).index + 1 \notin DOMAIN json[Head(path).key]
  THEN [id |-> <<Step("none", 0)>>]
  ELSE elementAt(json[Head(path).key][Head(path).index + 1], Tail(path))

\* C38: getInvalidContent lists every invalid block beneath a node before the block of
\* the node, and of two blocks that part at entries of one content or marks array the
\* one at the higher index first; so while 'remove' removes the blocks one after the
\* other, the path of every block still to come leads to the element it was made for.
InvalidBlocksDeepestFirst ==
  created.op = "transformInvalidJSON" =>
    LET blocks == created.blocks
        newJSON == removing(created.json, blocks)
    IN  /\ \A i, j \in DOMAIN blocks :
             (blocks[j].type = "node" /\ IsProperPrefix(blocks[j].path, blocks[i].path))
               => i < j
        /\ \A i, j \in DOMAIN blocks :
             \A k \in 1 .. Len(blocks[i].path) :
               (/\ PartAt(blocks[i].path, blocks[j].path, k)
                /\ blocks[i].path[k].key = blocks[j].path[k].key
                /\ blocks[i].path[k].index > blocks[j].path[k].index)
               => i < j
        /\ \A j \in DOMAIN blocks :
             \A done \in 0 .. j - 1 :
               elementAt(newJSON[done], blocks[j].path).id = blocks[j].path

\* Blocks at two entries of one array, and a block beneath one of them, were listed and
\* the two entries removed.
SiblingBlocksRemoved ==
  /\ created.op = "transformInvalidJSON"
  /\ \E i, j, below \in DOMAIN created.blocks :
       /\ i < j
       /\ ~created.blocks[i].invalidParentNode
       /\ ~created.blocks[j].invalidParentNode
       /\ created.blocks[i].type = "node"
       /\ created.blocks[j].type = "node"
       /\ PartAt(created.blocks[i].path, created.blocks[j].path, Len(created.blocks[i].path))
       /\ Len(created.blocks[i].path) = Len(created.blocks[j].path)
       /\ IsProperPrefix(created.blocks[i].path, created.blocks[below].path)

\* C37: the nodeNames, markNames and plainNames of the extension store share out the
\* names of manager.extensions: the name of every unit is once in the list of its
\* variant and in no other, the lists hold no other name, and each list is in the order
\* of manager.extensions.
NameListsPartitionExtensions ==
  mgr = "live" =>
    LET lists == [node  |-> extensionStore.nodeNames,
                  mark  |-> extensionStore.markNames,
                  plain |-> extensionStore.plainNames]
    IN  /\ \A i \in DOMAIN extensions : \A variant \in DOMAIN lists :
             Count(lists[variant], UnitDefs[extensions[i]].name)
               = IF UnitDefs[extensions[i]].variant = variant THEN 1 ELSE 0
        /\ \A variant \in DOMAIN lists : \A p \in DOMAIN lists[variant] :
             \E i \in DOMAIN extensions : UnitDefs[extensions[i]].name = lists[variant][p]
        /\ \A variant \in DOMAIN lists : InExtensionsOrder(lists[variant])

\* A manager with two node units, a mark unit and a plain unit.
NameListsFilled ==
  /\ mgr = "live"
  /\ Len(extensionStore.nodeNames) >= 2
  /\ extensionStore.markNames # <<>>
  /\ extensionStore.plainNames # <<>>

====
